---- MODULE Spec2Model ----
(***************************************************************************)
(* Expense tracker client (React Native): the shared application context   *)
(* (transactions, categories, settings and their cache), the add/edit      *)
(* forms with the voice-text parser, and the per-screen aggregation.       *)
(*                                                                         *)
(* Amounts are integers (minor units).  A calendar date "YYYY-MM-DD" is    *)
(* the number of its day; an instant is counted in half days, so that the  *)
(* instant 2*d is UTC midnight of day d, which is what                     *)
(* new Date("YYYY-MM-DD") denotes.  The device's time zone is UTC.         *)
(***************************************************************************)
EXTENDS Integers, Sequences, FiniteSets, Bags, TLC

VARIABLES
    \* AppContext (RootLayout state)
    transactions, categories, settings,
    loading,            \* RootLayout shows its loading screen
    \* what RootLayout talks to
    server,             \* the transactions the backend holds, newest first
    created,            \* how many transactions the backend has created
    serverCategories,   \* the categories the backend holds
    cache,              \* AsyncStorage: app_settings, categories, transactions
    calls,              \* the bag of the runs of async functions that await something
    categoryDeletes,    \* the DELETE /api/categories/{id} requests sent so far
    started,            \* how many calls the user has started
    failures,           \* how many fetches, responses and cache accesses have failed
    \* screen state of the reporting screens
    selectedPeriod, sortBy, now, rendered,
    \* the add-transaction form (HomeScreen / AddExpenseScreen)
    variant,            \* which build of the screen runs: "simulated" or "voice"
    amount, description, selectedCategory, transactionType, isListening,
    timer,              \* the pending setTimeout callback of handleVoiceInput
    alerts,             \* the Alert.alert dialogs, the first one displayed
    requests,           \* the POST /api/transactions calls awaiting their response
    userActions,        \* how many times the user has pressed or edited something
    event               \* the handler whose run produced the current state

storeVars == <<loading, server, created, serverCategories, cache, calls, categoryDeletes, started,
               failures>>
ctxVars == <<transactions, categories, settings, storeVars>>
aggVars == <<selectedPeriod, sortBy, now, rendered>>
formVars == <<variant, amount, description, selectedCategory, transactionType,
              isListening, timer, alerts, requests, userActions, event>>
vars == <<ctxVars, aggVars, formVars>>

(***************************************************************************)
(* Bounds of the model                                                     *)
(***************************************************************************)
MaxTxns == 2

Amounts == {1, 2}
CategoryNames == {"Groceries", "Utilities"}
TransactionTypes == {"income", "expense"}
Periods == {7, 30, 90}
SortOptions == {"amount_desc", "amount_asc", "name_asc", "count_desc"}

\* The day on which the screens are rendered (new Date()).
NowDay == 200
\* For the periods 7 and 30 these are a date before the window, the date of the
\* cutoff, a date inside the window and a date after today.
TxnDates == {NowDay - 30, NowDay - 7, NowDay + 1}

Transaction ==
    [id : {"t"}, amount : Amounts, category_name : CategoryNames,
     transaction_type : TransactionTypes, transaction_date : TxnDates]

\* The transactions of the Home screen's model: all in the current month, one
\* category with a name made of digits
HomeCategoryNames == {"Groceries", "Utilities", "7"}
HomeTransaction ==
    [id : {"t"}, amount : Amounts, category_name : HomeCategoryNames,
     transaction_type : TransactionTypes, transaction_date : {NowDay - 7}]

RECURSIVE SeqsUpTo(_, _)
SeqsUpTo(S, n) ==
    IF n = 0 THEN {<<>>}
    ELSE LET shorter == SeqsUpTo(S, n - 1)
         IN  shorter \cup {Append(s, x) : s \in {q \in shorter : Len(q) = n - 1}, x \in S}

(***************************************************************************)
(* Strings.  A string value is atomic in the state; Chars gives its        *)
(* characters and StrOf the string value of a sequence of characters.      *)
(***************************************************************************)
Strings ==
    {"",
     "Spent 500 rupees on groceries",
     "Earned 2000 dollars from freelancing",
     "Paid 150 for utilities",
     "Bought coffee for 80 rupees",
     "Lunch with friends",
     "Groceries",
     "Utilities",
     "Eating Out",
     "Rupees",
     "earned",
     "received",
     "income",
     "grocery",
     "food",
     "utility",
     "coffee",
     "restaurant",
     "500",
     "2000",
     "150",
     "80",
     "50",
     "0",
     "7",
     "abc",
     "Infinity"}

\* The characters of each string value of the model
Chars(s) ==
    CASE s = "" -> <<>>
      [] s = "Spent 500 rupees on groceries" -> <<"S", "p", "e", "n", "t", " ", "5", "0", "0", " ", "r", "u", "p", "e", "e", "s", " ", "o", "n", " ", "g", "r", "o", "c", "e", "r", "i", "e", "s">>
      [] s = "Earned 2000 dollars from freelancing" -> <<"E", "a", "r", "n", "e", "d", " ", "2", "0", "0", "0", " ", "d", "o", "l", "l", "a", "r", "s", " ", "f", "r", "o", "m", " ", "f", "r", "e", "e", "l", "a", "n", "c", "i", "n", "g">>
      [] s = "Paid 150 for utilities" -> <<"P", "a", "i", "d", " ", "1", "5", "0", " ", "f", "o", "r", " ", "u", "t", "i", "l", "i", "t", "i", "e", "s">>
      [] s = "Bought coffee for 80 rupees" -> <<"B", "o", "u", "g", "h", "t", " ", "c", "o", "f", "f", "e", "e", " ", "f", "o", "r", " ", "8", "0", " ", "r", "u", "p", "e", "e", "s">>
      [] s = "Lunch with friends" -> <<"L", "u", "n", "c", "h", " ", "w", "i", "t", "h", " ", "f", "r", "i", "e", "n", "d", "s">>
      [] s = "Groceries" -> <<"G", "r", "o", "c", "e", "r", "i", "e", "s">>
      [] s = "Utilities" -> <<"U", "t", "i", "l", "i", "t", "i", "e", "s">>
      [] s = "Eating Out" -> <<"E", "a", "t", "i", "n", "g", " ", "O", "u", "t">>
      [] s = "Rupees" -> <<"R", "u", "p", "e", "e", "s">>
      [] s = "earned" -> <<"e", "a", "r", "n", "e", "d">>
      [] s = "received" -> <<"r", "e", "c", "e", "i", "v", "e", "d">>
      [] s = "income" -> <<"i", "n", "c", "o", "m", "e">>
      [] s = "grocery" -> <<"g", "r", "o", "c", "e", "r", "y">>
      [] s = "food" -> <<"f", "o", "o", "d">>
      [] s = "utility" -> <<"u", "t", "i", "l", "i", "t", "y">>
      [] s = "coffee" -> <<"c", "o", "f", "f", "e", "e">>
      [] s = "restaurant" -> <<"r", "e", "s", "t", "a", "u", "r", "a", "n", "t">>
      [] s = "500" -> <<"5", "0", "0">>
      [] s = "2000" -> <<"2", "0", "0", "0">>
      [] s = "150" -> <<"1", "5", "0">>
      [] s = "80" -> <<"8", "0">>
      [] s = "50" -> <<"5", "0">>
      [] s = "0" -> <<"0">>
      [] s = "7" -> <<"7">>
      [] s = "abc" -> <<"a", "b", "c">>
      [] s = "Infinity" -> <<"I", "n", "f", "i", "n", "i", "t", "y">>


StrOf(cs) == CHOOSE s \in Strings : Chars(s) = cs

Digits == <<"0", "1", "2", "3", "4", "5", "6", "7", "8", "9">>
IsDigit(c) == \E i \in 1..10 : Digits[i] = c
DigitValue(c) == (CHOOSE i \in 1..10 : Digits[i] = c) - 1

UpperCase == <<"A", "B", "C", "D", "E", "F", "G", "H", "I", "J", "K", "L", "M",
               "N", "O", "P", "Q", "R", "S", "T", "U", "V", "W", "X", "Y", "Z">>
LowerCase == <<"a", "b", "c", "d", "e", "f", "g", "h", "i", "j", "k", "l", "m",
               "n", "o", "p", "q", "r", "s", "t", "u", "v", "w", "x", "y", "z">>

\* String.prototype.toLowerCase
toLowerCase(cs) ==
    [i \in 1..Len(cs) |->
        IF \E k \in 1..26 : UpperCase[k] = cs[i]
        THEN LowerCase[CHOOSE k \in 1..26 : UpperCase[k] = cs[i]]
        ELSE cs[i]]

\* String.prototype.includes
includes(hay, needle) ==
    \E i \in 0..(Len(hay) - Len(needle)) :
        \A j \in 1..Len(needle) : hay[i + j] = needle[j]

\* lowerText.match(/(\d+(?:\.\d{2})?)/): the captured text, <<>> when there is no match
amountMatch(cs) ==
    IF \A i \in 1..Len(cs) : ~IsDigit(cs[i]) THEN <<>>
    ELSE LET first == CHOOSE i \in 1..Len(cs) :
                          IsDigit(cs[i]) /\ \A j \in 1..(i - 1) : ~IsDigit(cs[j])
             last == CHOOSE e \in first..Len(cs) :
                          /\ \A j \in first..e : IsDigit(cs[j])
                          /\ (e = Len(cs) \/ ~IsDigit(cs[e + 1]))
         IN  IF /\ last + 3 <= Len(cs)
                /\ cs[last + 1] = "."
                /\ IsDigit(cs[last + 2])
                /\ IsDigit(cs[last + 3])
             THEN SubSeq(cs, first, last + 3)
             ELSE SubSeq(cs, first, last)

(***************************************************************************)
(* Numbers: NaN, an infinity, or a finite value counted in hundredths      *)
(***************************************************************************)
NaN == [kind |-> "NaN", sign |-> 1, hundredths |-> 0]
Infinite(sign) == [kind |-> "Infinity", sign |-> sign, hundredths |-> 0]
Finite(h) == [kind |-> "finite", sign |-> IF h < 0 THEN -1 ELSE 1, hundredths |-> h]

RECURSIVE DigitsValue(_)
DigitsValue(cs) ==
    IF cs = <<>> THEN 0
    ELSE 10 * DigitsValue(SubSeq(cs, 1, Len(cs) - 1)) + DigitValue(cs[Len(cs)])

\* the longest prefix of cs made of digits
DigitPrefix(cs) ==
    LET n == CHOOSE k \in 0..Len(cs) :
                 /\ \A j \in 1..k : IsDigit(cs[j])
                 /\ (k = Len(cs) \/ ~IsDigit(cs[k + 1]))
    IN  SubSeq(cs, 1, n)

Drop(cs, n) == SubSeq(cs, n + 1, Len(cs))

StartsWith(cs, prefix) ==
    Len(prefix) <= Len(cs) /\ SubSeq(cs, 1, Len(prefix)) = prefix

\* parseFloat without an exponent part: leading blanks, a sign, then "Infinity" or a
\* decimal literal; what follows the literal is ignored
parseFloat(text) ==
    LET blanks == CHOOSE k \in 0..Len(text) :
                      /\ \A j \in 1..k : text[j] = " "
                      /\ (k = Len(text) \/ text[k + 1] # " ")
        trimmed == Drop(text, blanks)
        signed == trimmed # <<>> /\ trimmed[1] \in {"+", "-"}
        sign == IF signed /\ trimmed[1] = "-" THEN -1 ELSE 1
        body == IF signed THEN Drop(trimmed, 1) ELSE trimmed
        whole == DigitPrefix(body)
        afterWhole == Drop(body, Len(whole))
        fraction == IF afterWhole # <<>> /\ afterWhole[1] = "."
                    THEN DigitPrefix(Drop(afterWhole, 1)) ELSE <<>>
        fraction2 == SubSeq(fraction \o <<"0", "0">>, 1, 2)
    IN  IF StartsWith(body, Chars("Infinity")) THEN Infinite(sign)
        ELSE IF whole = <<>> /\ fraction = <<>> THEN NaN
        ELSE Finite(sign * (100 * DigitsValue(whole) + DigitsValue(fraction2)))

isNaN(x) == x.kind = "NaN"
\* x <= 0
NotPositive(x) ==
    \/ x.kind = "finite" /\ x.hundredths <= 0
    \/ x.kind = "Infinity" /\ x.sign < 0

\* JSON.stringify of a number: a value that is not finite is written null
JSONNumber(x) == IF x.kind = "finite" THEN x ELSE [kind |-> "null", sign |-> 1, hundredths |-> 0]

(***************************************************************************)
(* Array helpers                                                           *)
(***************************************************************************)
\* the same reduce started from 1
RECURSIVE SumAmountsFromOne(_)
SumAmountsFromOne(s) ==
    IF s = <<>> THEN 1 ELSE s[1].amount + SumAmountsFromOne(Tail(s))

\* Array.prototype.reduce((sum, t) => sum + t.amount, 0)
RECURSIVE SumAmounts(_)
SumAmounts(s) ==
    IF s = <<>> THEN 0 ELSE s[1].amount + SumAmounts(Tail(s))

\* String.prototype.localeCompare: the characters are compared without their case,
\* a blank before the digits and the digits before the letters; strings that differ
\* only in case are ordered by the first difference, the lower-case letter first
CollationOrder == <<" ">> \o Digits \o LowerCase
CollationKey(cs) ==
    [i \in 1..Len(cs) |->
        CHOOSE k \in 1..Len(CollationOrder) : CollationOrder[k] = toLowerCase(cs)[i]]

RECURSIVE KeyLess(_, _)
KeyLess(a, b) ==
    IF b = <<>> THEN FALSE
    ELSE IF a = <<>> THEN TRUE
    ELSE IF a[1] # b[1] THEN a[1] < b[1]
    ELSE KeyLess(Tail(a), Tail(b))

LowerCaseFirst(a, b) ==
    LET i == CHOOSE k \in 1..Len(a) : a[k] # b[k] /\ \A j \in 1..(k - 1) : a[j] = b[j]
    IN  toLowerCase(a)[i] = a[i]

localeCompare(a, b) ==
    IF KeyLess(CollationKey(Chars(a)), CollationKey(Chars(b))) THEN -1
    ELSE IF KeyLess(CollationKey(Chars(b)), CollationKey(Chars(a))) THEN 1
    ELSE IF a = b THEN 0
    ELSE IF LowerCaseFirst(Chars(a), Chars(b)) THEN -1 ELSE 1

\* The comparators handed to Array.prototype.sort: Before(a, b) is cmp(a, b) < 0
Before(a, b, order) ==
    CASE order = "amount_desc" -> b.amount < a.amount
      [] order = "amount_asc" -> a.amount < b.amount
      [] order = "name_asc" -> localeCompare(a.name, b.name) < 0
      [] order = "count_desc" -> b.count < a.count
      [] OTHER -> FALSE

\* Array.prototype.sort: a stable sort
RECURSIVE InsertSorted(_, _, _)
InsertSorted(s, x, order) ==
    IF s = <<>> THEN <<x>>
    ELSE IF Before(x, s[1], order) THEN <<x>> \o s
    ELSE <<s[1]>> \o InsertSorted(Tail(s), x, order)

RECURSIVE SortRows(_, _)
SortRows(s, order) ==
    IF s = <<>> THEN <<>>
    ELSE InsertSorted(SortRows(SubSeq(s, 1, Len(s) - 1), order), s[Len(s)], order)

\* Array.prototype.slice(0, n)
SliceFront(s, n) == SubSeq(s, 1, IF Len(s) < n THEN Len(s) ELSE n)

IndexOfName(s, name) ==
    IF \E i \in 1..Len(s) : s[i].name = name
    THEN CHOOSE i \in 1..Len(s) : s[i].name = name
    ELSE 0

(***************************************************************************)
(* Date: a calendar of 365-day years; day 1 is January 1st of year 0       *)
(***************************************************************************)
DaysBeforeMonth == <<0, 31, 59, 90, 120, 151, 181, 212, 243, 273, 304, 334, 365>>

DayOf(instant) == instant \div 2
getFullYear(instant) == (DayOf(instant) - 1) \div 365
DayOfYear(instant) == ((DayOf(instant) - 1) % 365) + 1
\* Date.prototype.getMonth: 0 is January
getMonth(instant) ==
    CHOOSE m \in 0..11 :
        /\ DaysBeforeMonth[m + 1] < DayOfYear(instant)
        /\ DayOfYear(instant) <= DaysBeforeMonth[m + 2]

(***************************************************************************)
(* Period filter                                                           *)
(***************************************************************************)
\* cutoffDate = new Date(); cutoffDate.setDate(cutoffDate.getDate() - days)
CutoffDate(instant, days) == instant - 2 * days

getFilteredTransactions(txns, period, instant) ==
    SelectSeq(txns, LAMBDA t : 2 * t.transaction_date >= CutoffDate(instant, period))

ExpensesOf(txns) == SelectSeq(txns, LAMBDA t : t.transaction_type = "expense")
IncomesOf(txns) == SelectSeq(txns, LAMBDA t : t.transaction_type = "income")

totalExpenseOfEveryType(txns) == SumAmounts(txns)
totalExpense(txns) == SumAmounts(ExpensesOf(txns))
totalIncome(txns) == SumAmounts(IncomesOf(txns))

(***************************************************************************)
(* Category colours.  The hash is a JavaScript number with an integer      *)
(* value beyond 32 bits; it is held as <<q, r>>, standing for              *)
(* q * 65536 + r with 0 <= r < 65536.                                      *)
(***************************************************************************)
Two16 == 65536

Norm(p) == <<p[1] + (p[2] \div Two16), p[2] % Two16>>
Plus(a, b) == Norm(<<a[1] + b[1], a[2] + b[2]>>)
Minus(a, b) == Norm(<<a[1] - b[1], a[2] - b[2]>>)

\* h << 5: the low 32 bits of h shifted left by five, read as a signed 32-bit integer
ShiftLeft5(h) ==
    LET low == h[2] * 32
        high == ((h[1] % Two16) * 32 + (low \div Two16)) % Two16
    IN  <<IF high >= Two16 \div 2 THEN high - Two16 ELSE high, low % Two16>>

\* a variant of AbsMod without Math.abs: hash % n, which has the sign of hash
SignedRemainder(h, n) ==
    IF h[1] >= 0
    THEN ((h[1] % n) * (Two16 % n) + h[2]) % n
    ELSE 0 - ((((-h[1]) % n) * (Two16 % n) - h[2]) % n)

\* Math.abs(h) % n
AbsMod(h, n) ==
    IF h[1] >= 0
    THEN ((h[1] % n) * (Two16 % n) + h[2]) % n
    ELSE (((-h[1]) % n) * (Two16 % n) - h[2]) % n

\* String.prototype.charCodeAt
charCodeAt(c) ==
    IF c = " " THEN 32
    ELSE IF IsDigit(c) THEN 48 + DigitValue(c)
    ELSE IF \E k \in 1..26 : UpperCase[k] = c
    THEN 64 + (CHOOSE k \in 1..26 : UpperCase[k] = c)
    ELSE 96 + (CHOOSE k \in 1..26 : LowerCase[k] = c)

colors ==
    <<"#FF6B6B", "#4ECDC4", "#45B7D1", "#FFA07A", "#98D8C8",
      "#F7DC6F", "#BB8FCE", "#85C1E9", "#F8C471", "#D5A6BD">>

\* ChartsScreen: hash = categoryName.charCodeAt(i) + ((hash << 5) - hash)
RECURSIVE ChartsHash(_)
ChartsHash(cs) ==
    IF cs = <<>> THEN <<0, 0>>
    ELSE CHOOSE next \in
             {Plus(<<0, charCodeAt(cs[Len(cs)])>>, Minus(ShiftLeft5(hash), hash)) :
                 hash \in {ChartsHash(SubSeq(cs, 1, Len(cs) - 1))}} : TRUE

\* ChartsScreen.getColorForCategory
getColorForCategory(categoryName) ==
    colors[AbsMod(ChartsHash(Chars(categoryName)), Len(colors)) + 1]

\* HomeScreen: hash = categoryName.charCodeAt(i) + ((hash << 5) - hash)
RECURSIVE HomeHash(_)
HomeHash(cs) ==
    IF cs = <<>> THEN <<0, 0>>
    ELSE CHOOSE next \in
             {Plus(<<0, charCodeAt(cs[Len(cs)])>>, Minus(ShiftLeft5(hash), hash)) :
                 hash \in {HomeHash(SubSeq(cs, 1, Len(cs) - 1))}} : TRUE

\* a palette index taken from the length of the name
ColorByLength(categoryName) == colors[(Len(Chars(categoryName)) % Len(colors)) + 1]

\* HomeScreen.getColorForCategory
HomeGetColorForCategory(categoryName) ==
    colors[AbsMod(HomeHash(Chars(categoryName)), Len(colors)) + 1]

(***************************************************************************)
(* Category breakdowns                                                     *)
(***************************************************************************)
\* forEach over the list, one entry per category_name in insertion order
RECURSIVE GroupByCategory(_)
GroupByCategory(txns) ==
    IF txns = <<>> THEN <<>>
    ELSE LET rest == GroupByCategory(SubSeq(txns, 1, Len(txns) - 1))
             t == txns[Len(txns)]
             i == IndexOfName(rest, t.category_name)
         IN  IF i = 0
             THEN Append(rest, [name |-> t.category_name, amount |-> t.amount, count |-> 1])
             ELSE [rest EXCEPT ![i] = [name |-> @.name,
                                       amount |-> @.amount + t.amount,
                                       count |-> @.count + 1]]

\* A property key that is a canonical array index ("0", "7", "42")
IsArrayIndex(name) ==
    LET cs == Chars(name)
    IN  /\ cs # <<>>
        /\ \A i \in 1..Len(cs) : IsDigit(cs[i])
        /\ (Len(cs) = 1 \/ cs[1] # "0")

RECURSIVE InsertByIndex(_, _)
InsertByIndex(s, x) ==
    IF s = <<>> THEN <<x>>
    ELSE IF DigitsValue(Chars(x.name)) < DigitsValue(Chars(s[1].name)) THEN <<x>> \o s
    ELSE <<s[1]>> \o InsertByIndex(Tail(s), x)

RECURSIVE SortByIndex(_)
SortByIndex(s) ==
    IF s = <<>> THEN <<>>
    ELSE InsertByIndex(SortByIndex(SubSeq(s, 1, Len(s) - 1)), s[Len(s)])

\* Object.values / Object.entries of the object the forEach filled: the keys that
\* are array indexes come first in ascending numeric order, the other keys follow
\* in the order in which they were created
ObjectValues(rows) ==
    SortByIndex(SelectSeq(rows, LAMBDA r : IsArrayIndex(r.name)))
        \o SelectSeq(rows, LAMBDA r : ~IsArrayIndex(r.name))

\* SummaryScreen: the breakdown groups every filtered transaction
getCategoryBreakdown(filtered) ==
    SortRows(ObjectValues(GroupByCategory(filtered)), "amount_desc")

\* ChartsScreen: one slice per expense category, the largest first, .slice(0, 8)
PieTop == 8
getPieChartData(filtered) ==
    LET rows == SortRows(ObjectValues(GroupByCategory(ExpensesOf(filtered))), "amount_desc")
    IN  SliceFront([i \in 1..Len(rows) |->
                       [text |-> rows[i].name, value |-> rows[i].amount,
                        color |-> getColorForCategory(rows[i].name)]],
                   PieTop)

\* Home screen: the transactions of the current calendar month
monthlyTransactions(txns, instant) ==
    SelectSeq(txns, LAMBDA t :
        /\ getMonth(2 * t.transaction_date) = getMonth(instant)
        /\ getFullYear(2 * t.transaction_date) = getFullYear(instant))

categorySpending(monthly, order) ==
    LET rows == SortRows(ObjectValues(GroupByCategory(ExpensesOf(monthly))), order)
    IN  [i \in 1..Len(rows) |->
            [name |-> rows[i].name, amount |-> rows[i].amount, count |-> rows[i].count,
             color |-> HomeGetColorForCategory(rows[i].name)]]

\* Home screen (monthly overview): the five largest expense categories of the month,
\* Object.entries(categoryBreakdown).sort(([,a], [,b]) => b - a).slice(0, 5)
HomeTop == 5
sortedCategories(monthly) ==
    SliceFront(SortRows(ObjectValues(GroupByCategory(ExpensesOf(monthly))), "amount_desc"),
               HomeTop)

\* A percentage is held as the fraction num / den, den > 0.
\* SummaryScreen.renderCategoryBreakdown:
\* percentage = totalExpense > 0 ? (item.amount / totalExpense * 100) : 0
renderCategoryBreakdown(item, total) ==
    IF total > 0 THEN [num |-> item.amount * 100, den |-> total] ELSE [num |-> 0, den |-> 1]

\* HomeScreen.renderCategoryItem:
\* percentage = monthlyData.totalExpense > 0 ? (item.amount / monthlyData.totalExpense * 100) : 0
renderCategoryItem(item, total) ==
    IF total > 0 THEN [num |-> item.amount * 100, den |-> total] ELSE [num |-> 0, den |-> 1]

RECURSIVE SumBreakdown(_)
SumBreakdown(rows) ==
    IF rows = <<>> THEN 0 ELSE rows[1].amount + SumBreakdown(Tail(rows))

RECURSIVE SumValues(_)
SumValues(rows) ==
    IF rows = <<>> THEN 0 ELSE rows[1].value + SumValues(Tail(rows))

(***************************************************************************)
(* Month-bucketed series                                                   *)
(***************************************************************************)
\* toLocaleDateString('en-US', {month: 'short', year: 'numeric'}): the label of a
\* month, held as the month and the year it names
monthKey(t) ==
    [month |-> getMonth(2 * t.transaction_date), year |-> getFullYear(2 * t.transaction_date)]

\* forEach over the filtered transactions, one entry per monthKey in insertion order
RECURSIVE GroupByMonth(_)
GroupByMonth(txns) ==
    IF txns = <<>> THEN <<>>
    ELSE LET rest == GroupByMonth(SubSeq(txns, 1, Len(txns) - 1))
             t == txns[Len(txns)]
             isIncome == t.transaction_type = "income"
             found == {i \in 1..Len(rest) : rest[i].label = monthKey(t)}
         IN  IF found = {}
             THEN Append(rest, [label |-> monthKey(t),
                                income |-> IF isIncome THEN t.amount ELSE 0,
                                expense |-> IF isIncome THEN 0 ELSE t.amount])
             ELSE [i \in 1..Len(rest) |->
                      IF i \in found
                      THEN [label |-> rest[i].label,
                            income |-> rest[i].income + (IF isIncome THEN t.amount ELSE 0),
                            expense |-> rest[i].expense + (IF isIncome THEN 0 ELSE t.amount)]
                      ELSE rest[i]]

\* new Date(label).getTime() of a label the engine's Date parser accepts: the months
\* since January of year 0 stand for the instant of the first of the month
MonthTime(label) == 12 * label.year + label.month

\* sort((a, b) => new Date(a).getTime() - new Date(b).getTime()).  The format of the
\* label is not one every engine's Date parser accepts: where it is accepted the
\* comparator orders the months by their time, where it is not both times are NaN,
\* the comparator returns NaN and the stable sort leaves the keys as they are.
RECURSIVE InsertMonth(_, _)
InsertMonth(s, x) ==
    IF s = <<>> THEN <<x>>
    ELSE IF MonthTime(x.label) < MonthTime(s[1].label) THEN <<x>> \o s
    ELSE <<s[1]>> \o InsertMonth(Tail(s), x)

RECURSIVE SortMonths(_, _)
SortMonths(s, labelParses) ==
    IF ~labelParses \/ s = <<>> THEN s
    ELSE InsertMonth(SortMonths(SubSeq(s, 1, Len(s) - 1), labelParses), s[Len(s)])

getBarChartData(filtered, labelParses) ==
    LET sortedMonths == SortMonths(GroupByMonth(filtered), labelParses)
    IN  [i \in 1..Len(sortedMonths) |->
            [label |-> sortedMonths[i].label, value |-> sortedMonths[i].expense]]

(***************************************************************************)
(* Day-bucketed series                                                     *)
(***************************************************************************)
\* date.toISOString().split('T')[0] of the instant i days before now
DateKey(instant, i) == DayOf(instant - 2 * i)

\* for (let i = days - 1; i >= 0; i--) dailyData[dateKey] = 0
IsInitialDay(d, instant, days) ==
    DateKey(instant, days - 1) <= d /\ d <= DateKey(instant, 0)

\* dailyData[t.transaction_date] = (dailyData[t.transaction_date] || 0) + t.amount
IsSpendingDay(d, expenses) == \E i \in 1..Len(expenses) : expenses[i].transaction_date = d

\* the keys of dailyData
IsDailyKey(d, expenses, instant, days) ==
    IsInitialDay(d, instant, days) \/ IsSpendingDay(d, expenses)

Min(a, b) == IF a < b THEN a ELSE b
Max(a, b) == IF a < b THEN b ELSE a

RECURSIVE MinDate(_)
MinDate(txns) ==
    IF Len(txns) = 1 THEN txns[1].transaction_date
    ELSE Min(txns[1].transaction_date, MinDate(Tail(txns)))

RECURSIVE MaxDate(_)
MaxDate(txns) ==
    IF Len(txns) = 1 THEN txns[1].transaction_date
    ELSE Max(txns[1].transaction_date, MaxDate(Tail(txns)))

\* dailyData[d] for a key d
DailyValue(d, expenses) ==
    IF IsSpendingDay(d, expenses)
    THEN SumAmounts(SelectSeq(expenses, LAMBDA t : t.transaction_date = d))
    ELSE 0

\* Object.entries(dailyData), one entry per key, sorted by date ascending
DailyEntries(first, last, expenses, instant, days) ==
    SelectSeq([i \in 1..(last - first + 1) |->
                  [date |-> first + i - 1, value |-> DailyValue(first + i - 1, expenses)]],
              LAMBDA e : IsDailyKey(e.date, expenses, instant, days))

getLineChartData(filtered, instant, days) ==
    LET expenses == ExpensesOf(filtered)
        first == IF expenses = <<>> THEN DateKey(instant, days - 1)
                 ELSE Min(DateKey(instant, days - 1), MinDate(expenses))
        last == IF expenses = <<>> THEN DateKey(instant, 0)
                ELSE Max(DateKey(instant, 0), MaxDate(expenses))
    IN  DailyEntries(first, last, expenses, instant, days)

(***************************************************************************)
(* The add-transaction form and the voice-text parser                      *)
(***************************************************************************)
MaxUserActions == 5
MaxAlerts == 1

NoCategory == [id |-> "", name |-> "", is_custom |-> FALSE]
DefaultCategory(name) == [id |-> name, name |-> name, is_custom |-> FALSE]
CustomCategory(name) == [id |-> name, name |-> name, is_custom |-> TRUE]

CategoryLists ==
    {<<DefaultCategory("Utilities"), DefaultCategory("Groceries"), DefaultCategory("Eating Out")>>,
     <<CustomCategory("Rupees"), DefaultCategory("Groceries"), DefaultCategory("Utilities")>>}

\* const sampleInputs = [...]
sampleInputs ==
    <<"Spent 500 rupees on groceries", "Earned 2000 dollars from freelancing",
      "Paid 150 for utilities", "Bought coffee for 80 rupees">>
\* what the device's speech recognition may return
Utterances == {sampleInputs[i] : i \in 1..Len(sampleInputs)} \cup {"Lunch with friends"}
\* what the user may type into the amount field
TypedAmounts == {"", "0", "50", "abc", "Infinity"}

DefaultSettings ==
    [default_currency |-> "INR", dark_mode |-> FALSE, voice_enabled |-> TRUE,
     sync_enabled |-> FALSE]

NoTimer == [kind |-> "none"]
NoEvent == [handler |-> "none"]

\* the state a render's handlers close over
Closure == [amount |-> amount, selectedCategory |-> selectedCategory,
            transactionType |-> transactionType, description |-> description,
            isListening |-> isListening]
\* the first render of the screen
MountClosure == [amount |-> "", selectedCategory |-> NoCategory,
                 transactionType |-> "expense", description |-> "",
                 isListening |-> FALSE]

\* categories.find(cat => ...) of parseVoiceInput
CategoryMatches(cat, lowerText) ==
    \/ includes(lowerText, toLowerCase(Chars(cat.name)))
    \/ /\ cat.name = "Groceries"
       /\ includes(lowerText, Chars("grocery")) \/ includes(lowerText, Chars("food"))
    \/ cat.name = "Utilities" /\ includes(lowerText, Chars("utility"))
    \/ /\ cat.name = "Eating Out"
       /\ includes(lowerText, Chars("coffee")) \/ includes(lowerText, Chars("restaurant"))

\* a variant of foundCategory that returns the last category that matches
lastMatchingCategory(cats, lowerText) ==
    IF \E i \in 1..Len(cats) : CategoryMatches(cats[i], lowerText)
    THEN cats[CHOOSE i \in 1..Len(cats) :
                  /\ CategoryMatches(cats[i], lowerText)
                  /\ \A j \in (i + 1)..Len(cats) : ~CategoryMatches(cats[j], lowerText)]
    ELSE NoCategory

foundCategory(cats, lowerText) ==
    IF \E i \in 1..Len(cats) : CategoryMatches(cats[i], lowerText)
    THEN cats[CHOOSE i \in 1..Len(cats) :
                  /\ CategoryMatches(cats[i], lowerText)
                  /\ \A j \in 1..(i - 1) : ~CategoryMatches(cats[j], lowerText)]
    ELSE NoCategory

\* a variant of IsIncomeText that does not know the keyword 'earned'
IsIncomeTextWithoutEarned(lowerText) ==
    \/ includes(lowerText, Chars("received"))
    \/ includes(lowerText, Chars("income"))

IsIncomeText(lowerText) ==
    \/ includes(lowerText, Chars("earned"))
    \/ includes(lowerText, Chars("received"))
    \/ includes(lowerText, Chars("income"))

\* The parser's reading of each utterance and of each amount text, tabulated
LowerText == [t \in Utterances |-> toLowerCase(Chars(t))]
AmountMatchOf == [t \in Utterances |-> amountMatch(LowerText[t])]
IsIncomeOf == [t \in Utterances |-> IsIncomeText(LowerText[t])]
FoundCategoryOf == [t \in Utterances |-> [cats \in CategoryLists |-> foundCategory(cats, LowerText[t])]]
NumberOf == [a \in Strings |-> parseFloat(Chars(a))]

\* a variant of parseVoiceInput that leaves the type alone when no keyword occurs
parseVoiceInputKeepingType(voiceText, c) ==
    LET match == AmountMatchOf[voiceText]
        found == FoundCategoryOf[voiceText][categories]
    IN  /\ Len(alerts) < MaxAlerts
        /\ amount' = IF match # <<>> THEN StrOf(match) ELSE amount
        /\ transactionType' = IF IsIncomeOf[voiceText] THEN "income" ELSE transactionType
        /\ selectedCategory' = IF found # NoCategory THEN found ELSE selectedCategory
        /\ description' = voiceText
        /\ alerts' = Append(alerts, [kind |-> "voiceProcessed", text |-> voiceText,
                                     handleSubmit |-> c])

\* parseVoiceInput(voiceText), run by a handler that closes over c: the form fields it
\* sets and the alert it raises, whose 'Add Transaction' button is c's handleSubmit
parseVoiceInput(voiceText, c) ==
    LET match == AmountMatchOf[voiceText]
        found == FoundCategoryOf[voiceText][categories]
    IN  /\ Len(alerts) < MaxAlerts
        /\ amount' = IF match # <<>> THEN StrOf(match) ELSE amount
        /\ transactionType' = IF IsIncomeOf[voiceText] THEN "income" ELSE "expense"
        /\ selectedCategory' = IF found # NoCategory THEN found ELSE selectedCategory
        /\ description' = voiceText
        /\ alerts' = Append(alerts, [kind |-> "voiceProcessed", text |-> voiceText,
                                     handleSubmit |-> c])

\* handleSubmit's two checks
ValidationPasses(c) ==
    /\ c.amount # ""
    /\ c.selectedCategory # NoCategory
    /\ ~isNaN(NumberOf[c.amount])
    /\ ~NotPositive(NumberOf[c.amount])

\* the body of the POST request built by handleSubmit
RequestBody(c) ==
    [amount |-> JSONNumber(NumberOf[c.amount]),
     category_id |-> c.selectedCategory.id,
     category_name |-> c.selectedCategory.name,
     transaction_type |-> c.transactionType,
     description |-> c.description,
     currency |-> settings.default_currency,
     is_voice_input |-> IF variant = "simulated" THEN c.isListening ELSE FALSE]

\* handleSubmit as the render that c belongs to defined it, up to the await
handleSubmit(c) ==
    IF ~ValidationPasses(c)
    THEN /\ alerts' = Append(IF alerts = <<>> THEN <<>> ELSE Tail(alerts),
                             [kind |-> "error", text |-> "validation"])
         /\ UNCHANGED requests
    ELSE /\ requests' = Append(requests, RequestBody(c))
         /\ alerts' = IF alerts = <<>> THEN <<>> ELSE Tail(alerts)

FormIdle == alerts = <<>>
CanAct == userActions < MaxUserActions

SetAmount(a) ==
    /\ FormIdle /\ CanAct /\ a # amount
    /\ amount' = a
    /\ userActions' = userActions + 1
    /\ event' = [handler |-> "setAmount"]
    /\ UNCHANGED <<ctxVars, aggVars, variant, description, selectedCategory,
                   transactionType, isListening, timer, alerts, requests>>

SelectCategory(cat) ==
    /\ FormIdle /\ CanAct /\ cat # selectedCategory
    /\ selectedCategory' = cat
    /\ userActions' = userActions + 1
    /\ event' = [handler |-> "setSelectedCategory"]
    /\ UNCHANGED <<ctxVars, aggVars, variant, amount, description,
                   transactionType, isListening, timer, alerts, requests>>

SetTransactionType(t) ==
    /\ FormIdle /\ CanAct /\ t # transactionType
    /\ transactionType' = t
    /\ userActions' = userActions + 1
    /\ event' = [handler |-> "setTransactionType"]
    /\ UNCHANGED <<ctxVars, aggVars, variant, amount, description,
                   selectedCategory, isListening, timer, alerts, requests>>

\* the microphone button (disabled while listening): voice input is disabled
HandleVoiceInputDisabled ==
    /\ CanAct
    /\ userActions' = userActions + 1
    /\ FormIdle /\ ~isListening
    /\ ~settings.voice_enabled
    /\ Len(alerts) < MaxAlerts
    /\ alerts' = Append(alerts, [kind |-> "voiceDisabled", text |-> ""])
    /\ event' = [handler |-> "handleVoiceInput"]
    /\ UNCHANGED <<ctxVars, aggVars, variant, amount, description, selectedCategory,
                   transactionType, isListening, timer, requests>>

\* the microphone button: setIsListening(true); the simulated build arms the timer that
\* will parse a sample, the voice build starts the recognizer and arms its 10 s timeout,
\* whose callback reads the isListening of the render that armed it
HandleVoiceInput ==
    /\ CanAct
    /\ userActions' = userActions + 1
    /\ FormIdle /\ ~isListening
    /\ settings.voice_enabled
    /\ isListening' = TRUE
    /\ timer' = IF variant = "simulated"
                THEN [kind |-> "simulate", closure |-> Closure]
                ELSE [kind |-> "timeout", isListening |-> isListening]
    /\ event' = [handler |-> "handleVoiceInput"]
    /\ UNCHANGED <<ctxVars, aggVars, variant, amount, description, selectedCategory,
                   transactionType, alerts, requests>>

\* the microphone button of the voice build when Voice.isAvailable() is false or
\* Voice.start rejects: an alert, and isListening is false again (not on the web)
HandleVoiceInputFails ==
    /\ CanAct
    /\ userActions' = userActions + 1
    /\ FormIdle /\ ~isListening
    /\ settings.voice_enabled
    /\ variant = "voice"
    /\ alerts' = Append(alerts, [kind |-> "error", text |-> "voice"])
    /\ event' = [handler |-> "handleVoiceInput"]
    /\ UNCHANGED <<ctxVars, aggVars, variant, amount, description, selectedCategory,
                   transactionType, isListening, timer, requests>>

\* the 10 s setTimeout callback of the voice build: if (isListening) { Voice.stop() ... }
VoiceTimeoutCallback ==
    /\ timer.kind = "timeout"
    /\ isListening' = IF timer.isListening THEN FALSE ELSE isListening
    /\ timer' = NoTimer
    /\ event' = [handler |-> "timeout"]
    /\ UNCHANGED <<ctxVars, aggVars, variant, amount, description, selectedCategory,
                   transactionType, alerts, requests, userActions>>

\* the setTimeout callback of the simulated build
\* a variant of the timer callback that sends the parsed form at once
SimulatedVoiceCallbackThatSubmits ==
    /\ timer.kind = "simulate"
    /\ \E i \in 1..Len(sampleInputs) :
          /\ parseVoiceInput(sampleInputs[i], timer.closure)
          /\ event' = [handler |-> "parseVoiceInput", text |-> sampleInputs[i],
                       typeBefore |-> transactionType]
    /\ requests' = Append(requests, RequestBody(timer.closure))
    /\ isListening' = FALSE
    /\ timer' = NoTimer
    /\ UNCHANGED <<ctxVars, aggVars, variant, userActions>>

SimulatedVoiceCallback ==
    /\ timer.kind = "simulate"
    /\ \E i \in 1..Len(sampleInputs) :
          /\ parseVoiceInput(sampleInputs[i], timer.closure)
          /\ event' = [handler |-> "parseVoiceInput", text |-> sampleInputs[i],
                       typeBefore |-> transactionType]
    /\ isListening' = FALSE
    /\ timer' = NoTimer
    /\ UNCHANGED <<ctxVars, aggVars, variant, requests, userActions>>

\* Voice.onSpeechResults, installed by the first render
OnSpeechResults ==
    /\ variant = "voice" /\ isListening
    /\ \E text \in Utterances :
          /\ parseVoiceInput(text, MountClosure)
          /\ event' = [handler |-> "parseVoiceInput", text |-> text,
                       typeBefore |-> transactionType]
    /\ UNCHANGED <<ctxVars, aggVars, variant, isListening, timer, requests, userActions>>

\* Voice.onSpeechEnd
OnSpeechEnd ==
    /\ variant = "voice" /\ isListening
    /\ isListening' = FALSE
    /\ event' = [handler |-> "onSpeechEnd"]
    /\ UNCHANGED <<ctxVars, aggVars, variant, amount, description, selectedCategory,
                   transactionType, timer, alerts, requests, userActions>>

\* Voice.onSpeechError
OnSpeechError ==
    /\ variant = "voice" /\ isListening
    /\ Len(alerts) < MaxAlerts
    /\ isListening' = FALSE
    /\ alerts' = Append(alerts, [kind |-> "error", text |-> "voice"])
    /\ event' = [handler |-> "onSpeechError"]
    /\ UNCHANGED <<ctxVars, aggVars, variant, amount, description, selectedCategory,
                   transactionType, timer, requests, userActions>>

\* a dialog's only or 'Edit' button
DismissAlert ==
    /\ CanAct
    /\ userActions' = userActions + 1
    /\ alerts # <<>>
    /\ alerts' = Tail(alerts)
    /\ event' = [handler |-> "dismissAlert"]
    /\ UNCHANGED <<ctxVars, aggVars, variant, amount, description, selectedCategory,
                   transactionType, isListening, timer, requests>>

\* the 'Add Transaction' button of the dialog raised by parseVoiceInput
PressAddTransaction ==
    /\ CanAct
    /\ userActions' = userActions + 1
    /\ alerts # <<>> /\ alerts[1].kind = "voiceProcessed"
    /\ handleSubmit(alerts[1].handleSubmit)
    /\ event' = [handler |-> "handleSubmit", from |-> "alert"]
    /\ UNCHANGED <<ctxVars, aggVars, variant, amount, description, selectedCategory,
                   transactionType, isListening, timer>>

\* the submit button of the form
PressSubmit ==
    /\ CanAct
    /\ userActions' = userActions + 1
    /\ FormIdle
    /\ handleSubmit(Closure)
    /\ event' = [handler |-> "handleSubmit", from |-> "button"]
    /\ UNCHANGED <<ctxVars, aggVars, variant, amount, description, selectedCategory,
                   transactionType, isListening, timer>>

\* await addTransaction(...) resolves: the form is reset
AddTransactionResolves ==
    /\ requests # <<>>
    /\ requests' = Tail(requests)
    /\ amount' = ""
    /\ description' = ""
    /\ selectedCategory' = NoCategory
    /\ transactionType' = "expense"
    /\ alerts' = IF variant = "voice"
                 THEN Append(alerts, [kind |-> "success", text |-> ""])
                 ELSE alerts
    /\ event' = [handler |-> "handleSubmit.resolved"]
    /\ UNCHANGED <<ctxVars, aggVars, variant, isListening, timer, userActions>>

\* await addTransaction(...) rejects: the form is left as it is
AddTransactionRejects ==
    /\ requests # <<>>
    /\ requests' = Tail(requests)
    /\ alerts' = IF variant = "voice"
                 THEN Append(alerts, [kind |-> "error", text |-> "failed"])
                 ELSE alerts
    /\ event' = [handler |-> "handleSubmit.rejected"]
    /\ UNCHANGED <<ctxVars, aggVars, variant, amount, description, selectedCategory,
                   transactionType, isListening, timer, userActions>>

NoEntry == [present |-> FALSE, value |-> <<>>]
Entry(v) == [present |-> TRUE, value |-> v]
EmptyCache == [app_settings |-> NoEntry, categories |-> NoEntry, transactions |-> NoEntry]

\* the store as the form and the reporting screens see it: loaded and quiet
InitStoreFields ==
    /\ loading = FALSE
    /\ server = <<>>
    /\ created = 0
    /\ serverCategories = <<>>
    /\ cache = EmptyCache
    /\ calls = EmptyBag
    /\ categoryDeletes = <<>>
    /\ started = 0
    /\ failures = 0

InitFormFields ==
    /\ amount = ""
    /\ description = ""
    /\ selectedCategory = NoCategory
    /\ transactionType = "expense"
    /\ isListening = FALSE
    /\ timer = NoTimer
    /\ alerts = <<>>
    /\ requests = <<>>
    /\ userActions = 0
    /\ event = NoEvent

InitAggFields ==
    /\ selectedPeriod = 30
    /\ sortBy = "amount_desc"
    /\ rendered = [screen |-> "none"]

InitForm ==
    /\ transactions = <<>>
    /\ categories \in CategoryLists
    /\ settings \in {[DefaultSettings EXCEPT !.voice_enabled = v] : v \in BOOLEAN}
    /\ variant \in {"simulated", "voice"}
    /\ now = 2 * NowDay + 1
    /\ InitStoreFields
    /\ InitAggFields
    /\ InitFormFields

NextForm ==
    \/ \E a \in TypedAmounts : SetAmount(a)
    \/ \E i \in 1..Len(categories) : SelectCategory(categories[i])
    \/ \E t \in TransactionTypes : SetTransactionType(t)
    \/ HandleVoiceInputDisabled
    \/ HandleVoiceInput
    \/ HandleVoiceInputFails
    \/ SimulatedVoiceCallback
    \/ VoiceTimeoutCallback
    \/ OnSpeechResults
    \/ OnSpeechEnd
    \/ OnSpeechError
    \/ DismissAlert
    \/ PressAddTransaction
    \/ PressSubmit
    \/ AddTransactionResolves
    \/ AddTransactionRejects

SpecForm == InitForm /\ [][NextForm]_vars

(***************************************************************************)
(* Reporting screens.  A change of the screen's state invalidates what was *)
(* rendered; the screen in focus is then rendered from the new state.      *)
(***************************************************************************)
SetSelectedPeriod(p) ==
    /\ p # selectedPeriod
    /\ selectedPeriod' = p
    /\ rendered' = [screen |-> "none"]
    /\ UNCHANGED <<ctxVars, sortBy, now, formVars>>

RenderSummary ==
    LET filtered == getFilteredTransactions(transactions, selectedPeriod, now)
    IN  /\ rendered.screen = "none"
        /\ rendered' = [screen |-> "summary",
                        filtered |-> filtered,
                        totalIncome |-> totalIncome(filtered),
                        totalExpense |-> totalExpense(filtered),
                        netAmount |-> totalIncome(filtered) - totalExpense(filtered),
                        categoryBreakdown |-> getCategoryBreakdown(filtered),
                        percentages |->
                            [i \in 1..Len(getCategoryBreakdown(filtered)) |->
                                renderCategoryBreakdown(getCategoryBreakdown(filtered)[i],
                                                        totalExpense(filtered))]]
        /\ UNCHANGED <<ctxVars, selectedPeriod, sortBy, now, formVars>>

RenderCharts ==
    LET filtered == getFilteredTransactions(transactions, selectedPeriod, now)
    IN  /\ rendered.screen = "none"
        /\ \E labelParses \in BOOLEAN :
               rendered' = [screen |-> "charts",
                            barData |-> getBarChartData(filtered, labelParses),
                            filtered |-> filtered,
                            totalIncome |-> totalIncome(filtered),
                            totalExpense |-> totalExpense(filtered),
                            netAmount |-> totalIncome(filtered) - totalExpense(filtered),
                            pieData |-> getPieChartData(filtered),
                            lineData |-> getLineChartData(filtered, now, selectedPeriod)]
        /\ UNCHANGED <<ctxVars, selectedPeriod, sortBy, now, formVars>>

RenderHome ==
    LET monthly == monthlyTransactions(transactions, now)
    IN  /\ rendered.screen = "none"
        /\ rendered' = [screen |-> "home",
                        monthly |-> monthly,
                        totalIncome |-> totalIncome(monthly),
                        totalExpense |-> totalExpense(monthly),
                        netAmount |-> totalIncome(monthly) - totalExpense(monthly),
                        categorySpending |-> categorySpending(monthly, sortBy),
                        percentages |->
                            [i \in 1..Len(categorySpending(monthly, sortBy)) |->
                                renderCategoryItem(categorySpending(monthly, sortBy)[i],
                                                   totalExpense(monthly))]]
        /\ UNCHANGED <<ctxVars, selectedPeriod, sortBy, now, formVars>>

\* Home screen (monthly overview): monthlyData
RenderMonthlyData ==
    LET monthly == monthlyTransactions(transactions, now)
    IN  /\ rendered.screen = "none"
        /\ rendered' = [screen |-> "monthly",
                        monthly |-> monthly,
                        totalIncome |-> totalIncome(monthly),
                        totalExpense |-> totalExpense(monthly),
                        netAmount |-> totalIncome(monthly) - totalExpense(monthly),
                        categoryBreakdown |-> sortedCategories(monthly)]
        /\ UNCHANGED <<ctxVars, selectedPeriod, sortBy, now, formVars>>

\* DashboardScreen: totalIncome, totalExpenses and balance over every transaction
RenderDashboard ==
    /\ rendered.screen = "none"
    /\ rendered' = [screen |-> "dashboard",
                    totalIncome |-> totalIncome(transactions),
                    totalExpense |-> totalExpense(transactions),
                    netAmount |-> totalIncome(transactions) - totalExpense(transactions)]
    /\ UNCHANGED <<ctxVars, selectedPeriod, sortBy, now, formVars>>

InitAgg ==
    /\ transactions \in SeqsUpTo(Transaction, MaxTxns)
    /\ now \in {2 * NowDay, 2 * NowDay + 1}
    /\ InitAggFields
    /\ categories = <<>>
    /\ settings = DefaultSettings
    /\ variant = "simulated"
    /\ InitStoreFields
    /\ InitFormFields

NextAgg ==
    \/ \E p \in Periods : SetSelectedPeriod(p)
    \/ RenderSummary
    \/ RenderCharts
    \/ RenderHome
    \/ RenderMonthlyData
    \/ RenderDashboard

SpecAgg == InitAgg /\ [][NextAgg]_vars

\* Home screen: setSortBy(option).  The screen declares the setter and sorts by
\* the option; the option is drawn here as the input of the sort.
SetSortBy(o) ==
    /\ o # sortBy
    /\ sortBy' = o
    /\ rendered' = [screen |-> "none"]
    /\ UNCHANGED <<ctxVars, selectedPeriod, now, formVars>>

InitHome ==
    /\ transactions \in SeqsUpTo(HomeTransaction, MaxTxns)
    /\ now \in {2 * NowDay, 2 * NowDay + 1}
    /\ InitAggFields
    /\ categories = <<>>
    /\ settings = DefaultSettings
    /\ variant = "simulated"
    /\ InitStoreFields
    /\ InitFormFields

NextHome ==
    \/ \E o \in SortOptions : SetSortBy(o)
    \/ \E p \in Periods : SetSelectedPeriod(p)
    \/ RenderSummary
    \/ RenderCharts
    \/ RenderHome
    \/ RenderMonthlyData
    \/ RenderDashboard

SpecHome == InitHome /\ [][NextHome]_vars

(***************************************************************************)
(* Properties of the reporting screens                                     *)
(***************************************************************************)
\* C1: on every screen the per-category amounts of the breakdown sum to the
\* total expense of the window the screen shows.
C1_BreakdownSumsToTotalExpense ==
    /\ rendered.screen = "summary" =>
            SumBreakdown(rendered.categoryBreakdown) = rendered.totalExpense
    /\ rendered.screen = "charts" => SumValues(rendered.pieData) = rendered.totalExpense
    /\ rendered.screen = "home" =>
            SumBreakdown(rendered.categorySpending) = rendered.totalExpense

\* C2: the day-bucketed series of a window of N days has exactly N entries.
C2_LineChartHasNEntries ==
    rendered.screen = "charts" => Len(rendered.lineData) = selectedPeriod

\* C11: the period filter retains exactly the transactions dated from the
\* cutoff (now minus the window, included) up to now; earlier and later ones
\* are dropped.
C11_FilterRetainsExactlyTheWindow ==
    rendered.screen \in {"summary", "charts"} =>
        rendered.filtered =
            SelectSeq(transactions, LAMBDA t :
                /\ CutoffDate(now, selectedPeriod) <= 2 * t.transaction_date
                /\ 2 * t.transaction_date <= now)

\* the transactions a rendered screen computes its totals from
WindowOf(r) ==
    CASE r.screen \in {"summary", "charts"} -> r.filtered
      [] r.screen \in {"home", "monthly"} -> r.monthly
      [] OTHER -> transactions

\* the sum of the amounts of the transactions of one type
RECURSIVE AmountOfType(_, _)
AmountOfType(txns, type) ==
    IF txns = <<>> THEN 0
    ELSE AmountOfType(SubSeq(txns, 1, Len(txns) - 1), type)
            + (IF txns[Len(txns)].transaction_type = type THEN txns[Len(txns)].amount ELSE 0)

\* C12: on every screen that shows totals, the income total is the sum of the
\* income amounts of the screen's window, the expense total is the sum of its
\* expense amounts, and the net amount is exactly income minus expense.
C12_TotalsAreSumsAndNetIsDifference ==
    rendered.screen # "none" =>
        /\ rendered.totalIncome = AmountOfType(WindowOf(rendered), "income")
        /\ rendered.totalExpense = AmountOfType(WindowOf(rendered), "expense")
        /\ rendered.netAmount = rendered.totalIncome - rendered.totalExpense

C12_Witness ==
    /\ rendered.screen = "dashboard"
    /\ rendered.totalIncome = 1
    /\ rendered.totalExpense = 2
    /\ rendered.netAmount = -1

\* C13: with an empty transaction list every total is 0 and every category
\* breakdown is empty, under every window and every sort option.
C13_EmptyListGivesZeroTotalsAndEmptyBreakdown ==
    (transactions = <<>> /\ rendered.screen # "none") =>
        /\ rendered.totalIncome = 0
        /\ rendered.totalExpense = 0
        /\ rendered.netAmount = 0
        /\ rendered.screen \in {"summary", "monthly"} => rendered.categoryBreakdown = <<>>
        /\ rendered.screen = "charts" => rendered.pieData = <<>>
        /\ rendered.screen = "home" => rendered.categorySpending = <<>>

C13_Witness ==
    /\ transactions = <<>>
    /\ rendered.screen = "home"
    /\ sortBy = "name_asc"
    /\ selectedPeriod = 90

FirstExpenseOf(txns, name) ==
    CHOOSE i \in 1..Len(txns) :
        /\ txns[i].category_name = name /\ txns[i].transaction_type = "expense"
        /\ \A j \in 1..(i - 1) :
               ~(txns[j].category_name = name /\ txns[j].transaction_type = "expense")

\* C15: the category rows are ordered by the key of the selected sort option
\* (amount descending, amount ascending, name ascending, count descending),
\* and rows with equal keys keep the order in which their categories first
\* occur in the transaction list.
C15_SortedByOptionWithInsertionOrderTies ==
    rendered.screen = "home" =>
        \A i, j \in 1..Len(rendered.categorySpending) :
            LET a == rendered.categorySpending[i]
                b == rendered.categorySpending[j]
            IN  i < j =>
                    /\ ~Before(b, a, sortBy)
                    /\ ~Before(a, b, sortBy) =>
                            FirstExpenseOf(rendered.monthly, a.name)
                                < FirstExpenseOf(rendered.monthly, b.name)

\* C16: the month-bucketed series has one bucket for each calendar month that
\* holds at least one filtered transaction, no bucket for any other month, and
\* its buckets are in chronologically ascending order.
C16_MonthBucketsAreExactAndChronological ==
    rendered.screen = "charts" =>
        /\ {rendered.barData[i].label : i \in 1..Len(rendered.barData)}
                = {monthKey(rendered.filtered[k]) : k \in 1..Len(rendered.filtered)}
        /\ \A i, j \in 1..Len(rendered.barData) :
               i < j => \/ rendered.barData[i].label.year < rendered.barData[j].label.year
                        \/ /\ rendered.barData[i].label.year = rendered.barData[j].label.year
                           /\ rendered.barData[i].label.month < rendered.barData[j].label.month

\* the sum of the amounts of the expenses of txns dated on day d
RECURSIVE ExpenseOnDay(_, _)
ExpenseOnDay(txns, d) ==
    IF txns = <<>> THEN 0
    ELSE ExpenseOnDay(Tail(txns), d)
            + (IF txns[1].transaction_type = "expense" /\ txns[1].transaction_date = d
               THEN txns[1].amount ELSE 0)

\* C19: in the day-bucketed series each bucket's value is the sum of the amounts
\* of the window's expenses dated on the bucket's day (0 when there are none),
\* income never contributes, and every expense the period filter retains is
\* counted in exactly one of the N buckets of the window of N days.
C19_DayBucketsCountEveryExpenseOnce ==
    rendered.screen = "charts" =>
        /\ \A i \in 1..Len(rendered.lineData) :
               rendered.lineData[i].value
                   = ExpenseOnDay(rendered.filtered, rendered.lineData[i].date)
        /\ \A k \in 1..Len(rendered.filtered) :
               rendered.filtered[k].transaction_type = "expense" =>
                   /\ Cardinality({i \in 1..Len(rendered.lineData) :
                           rendered.lineData[i].date = rendered.filtered[k].transaction_date}) = 1
                   /\ DayOf(now) - selectedPeriod < rendered.filtered[k].transaction_date
                   /\ rendered.filtered[k].transaction_date <= DayOf(now)

\* the rows of the category breakdown a screen shows
BreakdownOf(r) == IF r.screen = "summary" THEN r.categoryBreakdown ELSE r.categorySpending

\* C20: the percentage of every row of a category breakdown is 0 when the
\* window's total expense is 0, and is otherwise the row's share of the total
\* expense, a value between 0 and 100.
C20_PercentageIsShareOfTotalExpense ==
    rendered.screen \in {"summary", "home"} =>
        \A i \in 1..Len(BreakdownOf(rendered)) :
            LET p == rendered.percentages[i]
            IN  IF rendered.totalExpense = 0
                THEN p.num = 0
                ELSE /\ p.num * rendered.totalExpense
                            = 100 * BreakdownOf(rendered)[i].amount * p.den
                     /\ 0 <= p.num
                     /\ p.num <= 100 * p.den

(***************************************************************************)
(* Properties of the form and of the voice-text parser                     *)
(***************************************************************************)
Spent500 == "Spent 500 rupees on groceries"
Earned2000 == "Earned 2000 dollars from freelancing"

HasGroceries(cats) == \E i \in 1..Len(cats) : cats[i].name = "Groceries"

\* the lower-cased name of cat occurs in the lower-cased text
NameOccurs(cat, text) ==
    includes(toLowerCase(Chars(text)), toLowerCase(Chars(cat.name)))

\* no category listed before Groceries has a name that occurs in the text
GroceriesMatchesFirst(cats, text) ==
    \E i \in 1..Len(cats) :
        /\ cats[i].name = "Groceries"
        /\ \A j \in 1..(i - 1) : ~NameOccurs(cats[j], text)

\* C3 (as claimed): with any category list that contains Groceries, parsing
\* "Spent 500 rupees on groceries" gives amount "500", type expense and category
\* Groceries; parsing "Earned 2000 dollars from freelancing" gives income and "2000".
C3_SamplesParsedWithAnyList ==
    event.handler = "parseVoiceInput" =>
        /\ (event.text = Spent500 /\ HasGroceries(categories)) =>
                /\ amount = "500"
                /\ transactionType = "expense"
                /\ selectedCategory.name = "Groceries"
        /\ event.text = Earned2000 =>
                transactionType = "income" /\ amount = "2000"

\* C3 (amended): the same, for the category lists in which no category listed
\* before Groceries has a name that occurs in the text.
C3_SamplesParsedWhenGroceriesMatchesFirst ==
    event.handler = "parseVoiceInput" =>
        /\ (event.text = Spent500 /\ GroceriesMatchesFirst(categories, Spent500)) =>
                /\ amount = "500"
                /\ transactionType = "expense"
                /\ selectedCategory.name = "Groceries"
        /\ event.text = Earned2000 =>
                transactionType = "income" /\ amount = "2000"

\* C3 witness: the first sample has been parsed with a list whose second category is
\* Groceries.
C3_Witness ==
    /\ event.handler = "parseVoiceInput" /\ event.text = Spent500
    /\ categories[2].name = "Groceries"
    /\ selectedCategory.name = "Groceries"
    /\ amount = "500"

\* C4: after a parse, a field the text gives no match for is unset, whatever the
\* form held before.
C4_UnmatchedFieldsAreUnset ==
    event.handler = "parseVoiceInput" =>
        /\ AmountMatchOf[event.text] = <<>> => amount = ""
        /\ FoundCategoryOf[event.text][categories] = NoCategory =>
                selectedCategory = NoCategory

IncomeKeywords == {"earned", "received", "income"}

\* the lower-cased text contains one of the keywords
HasIncomeKeyword ==
    [t \in Utterances |->
        \E kw \in IncomeKeywords : includes(toLowerCase(Chars(t)), Chars(kw))]

\* C17: after a parse the transaction type is income exactly when the lower-cased
\* text contains one of the keywords earned, received, income, and expense
\* otherwise, whatever the type was before.
C17_TypeIsIncomeIffKeyword ==
    event.handler = "parseVoiceInput" =>
        IF HasIncomeKeyword[event.text]
        THEN transactionType = "income"
        ELSE transactionType = "expense"

\* C17 witness: a text without a keyword has been parsed while the form held income
C17_Witness ==
    /\ event.handler = "parseVoiceInput"
    /\ event.text = Spent500
    /\ event.typeBefore = "income"
    /\ transactionType = "expense"

\* the words that stand for a category: its lower-cased name and its synonyms
WordsOf(cat) ==
    {toLowerCase(Chars(cat.name))}
        \cup (CASE cat.name = "Groceries" -> {Chars("grocery"), Chars("food")}
               [] cat.name = "Utilities" -> {Chars("utility")}
               [] cat.name = "Eating Out" -> {Chars("coffee"), Chars("restaurant")}
               [] OTHER -> {})

AnyCategory == {cats[i] : cats \in CategoryLists, i \in 1..3}
MatchesText ==
    [cat \in AnyCategory |->
        [t \in Utterances |-> \E w \in WordsOf(cat) : includes(toLowerCase(Chars(t)), w)]]

\* C18: the category a parse infers is the first category of the list, in list
\* order, whose name occurs in the text without regard to case or whose synonym
\* occurs in it; when several categories match, the earlier one wins.
C18_FirstMatchingCategoryWins ==
    event.handler = "parseVoiceInput" =>
        \A i \in 1..Len(categories) :
            (/\ MatchesText[categories[i]][event.text]
             /\ \A j \in 1..(i - 1) : ~MatchesText[categories[j]][event.text])
                => selectedCategory = categories[i]

\* C18 witness: two categories of the list match the text and the earlier one is set
C18_Witness ==
    /\ event.handler = "parseVoiceInput"
    /\ MatchesText[categories[1]][event.text]
    /\ MatchesText[categories[2]][event.text]
    /\ selectedCategory = categories[1]

\* C5: a request is sent only by a run of handleSubmit, which only the user's press
\* of 'Add Transaction' or of the submit button starts; no parse, timer or recognizer
\* callback sends one.
C5_RequestsOnlyOnUserConfirmation ==
    [][Len(requests') > Len(requests) => event'.handler = "handleSubmit"]_vars

\* C5 witness: a request carrying a parsed utterance has been sent by a press.
C5_Witness ==
    /\ requests # <<>>
    /\ requests[Len(requests)].description \in Utterances
    /\ event.handler = "handleSubmit"

\* C6: a run of handleSubmit that fails validation sends nothing and leaves every
\* field of the form as it was, and every request sent carries a selected category
\* and an amount that is a number > 0.
C6_OnlyValidatedPositiveAmountsAreSent ==
    [][/\ (/\ event'.handler = "handleSubmit"
            /\ alerts' # <<>>
            /\ alerts'[Len(alerts')] = [kind |-> "error", text |-> "validation"]) =>
                /\ requests' = requests
                /\ <<amount, description, selectedCategory, transactionType>>' =
                       <<amount, description, selectedCategory, transactionType>>
       /\ \A i \in 1..Len(requests') :
                /\ requests'[i].category_id # NoCategory.id
                /\ requests'[i].amount.kind = "finite"
                /\ requests'[i].amount.hundredths > 0]_vars

\* C23: once recognition was started, the 10-second timeout ends it: when the timeout
\* callback has run, isListening is false, whether or not a speech-end or speech-error
\* event arrived before
C23_TimeoutStopsListening ==
    [][event'.handler = "timeout" => ~isListening']_vars

\* C26: when 'Add Transaction' is pressed in the alert that parseVoiceInput has just
\* raised, the submit handler validates and sends the amount, type, category and
\* description that the parse has set, not the form values from before the parse.
C26_AlertSubmitsParsedValues ==
    [][(/\ event.handler = "parseVoiceInput"
        /\ event'.handler = "handleSubmit" /\ event'.from = "alert") =>
            IF ValidationPasses(Closure)
            THEN /\ Len(requests') = Len(requests) + 1
                 /\ LET sent == requests'[Len(requests')]
                    IN  /\ sent.amount = JSONNumber(NumberOf[amount])
                        /\ sent.transaction_type = transactionType
                        /\ sent.category_id = selectedCategory.id
                        /\ sent.category_name = selectedCategory.name
                        /\ sent.description = description
            ELSE requests' = requests]_vars

\* C22: a transaction created by confirming a parsed voice input is submitted
\* with is_voice_input = true, and a transaction submitted from the form by hand
\* is submitted with is_voice_input = false.
C22_VoiceFlagTellsHowEntered ==
    [][(event'.handler = "handleSubmit" /\ Len(requests') > Len(requests)) =>
            requests'[Len(requests')].is_voice_input = (event'.from = "alert")]_vars

(***************************************************************************)
(* RootLayout's data: the backend, the AsyncStorage cache, the calls in     *)
(* flight.  A call is one run of an async function of RootLayout (or of a   *)
(* settings handler), stopped at an await; `closure` is the transactions    *)
(* list of the render that created the function being run.                 *)
(***************************************************************************)
MaxCalls == 2       \* calls in flight at once
MaxOps == 2         \* calls the user starts
MaxFailures == 1    \* fetches, responses and cache accesses that fail

StoredTxn(id, amt) ==
    [id |-> id, amount |-> amt, category_name |-> "Groceries",
     transaction_type |-> "expense", transaction_date |-> NowDay]

Mutations == {"addTransaction", "updateTransaction", "deleteTransaction"}
Responses == {"ok", "nonOK", "rejected"}

HasId(list, id) == \E k \in 1..Len(list) : list[k].id = id

\* a variant of Prepend that puts the new element last
PutLast(list, new) == list \o <<new>>

\* [newTransaction, ...list]
Prepend(list, new) == <<new>> \o list

\* list.map(t => t.id === id ? updated : t)
ReplaceById(list, id, updated) ==
    [k \in 1..Len(list) |-> IF list[k].id = id THEN updated ELSE list[k]]

\* list.filter(t => t.id !== id)
RemoveById(list, id) == SelectSeq(list, LAMBDA t : t.id # id)

\* the transaction in the backend's OK response: a created one has a new id
ResponseJson(c) ==
    IF c.op = "addTransaction" THEN [c.body EXCEPT !.id = created + 1] ELSE c.body

\* what a mutation makes of a list: of prev, of its closure's list, of the backend's
ApplyMutation(c, list) ==
    CASE c.op = "addTransaction" -> Prepend(list, ResponseJson(c))
      [] c.op = "updateTransaction" -> ReplaceById(list, c.id, ResponseJson(c))
      [] c.op = "deleteTransaction" -> RemoveById(list, c.id)

\* the backend answers OK to a PUT or DELETE only for a transaction it holds
ServerAccepts(c) == c.op = "addTransaction" \/ HasId(server, c.id)

NewCall(op, pc, id, body, category) ==
    [op |-> op, pc |-> pc, id |-> id, body |-> body, category |-> category,
     initial |-> FALSE, closure |-> transactions, interfered |-> FALSE,
     data |-> <<>>, met |-> {}]

\* the call RootLayout's effect starts on mount
InitialCall ==
    [NewCall("loadInitialData", "settings", 0, StoredTxn(0, 1), NoCategory)
        EXCEPT !.initial = TRUE, !.closure = <<>>]

Met(c, failure) == [c EXCEPT !.met = @ \cup {failure}]

Interfered(c) == [c EXCEPT !.interfered = TRUE]

\* the other calls after a call has made the list `new`: they have seen it change
Interfere(others, new) ==
    IF new # transactions THEN BagOfAll(Interfered, others) ELSE others

\* the calls in flight without c, and with c
Without(c) == calls (-) SetToBag({c})
With(others, c) == others (+) SetToBag({c})

Outcome(c, outcome) ==
    [handler |-> c.op, outcome |-> outcome, before |-> c.closure,
     interfered |-> c.interfered, met |-> c.met]

\* a mutation has got its OK response and has run setTransactions
Fetched(c) ==
    [handler |-> c.op, outcome |-> "ok", id |-> c.id, json |-> ResponseJson(c)]

formRest == <<variant, amount, description, selectedCategory, transactionType,
              isListening, timer, requests, userActions>>

StoreIdle == ~loading /\ alerts = <<>>
MayFail == failures < MaxFailures
CanStart == StoreIdle /\ started < MaxOps /\ BagCardinality(calls) < MaxCalls

\* a screen calls addTransaction with a validated body
AddTransactionStarts(amt) ==
    /\ CanStart
    /\ started' = started + 1
    /\ calls' = With(calls, NewCall("addTransaction", "fetch", 0, StoredTxn(0, amt),
                                    NoCategory))
    /\ event' = NoEvent
    /\ UNCHANGED <<transactions, categories, settings, loading, server, created, serverCategories,
                   cache, categoryDeletes, failures, alerts, aggVars, formRest>>

\* the edit modal calls updateTransaction for a transaction of the list
UpdateTransactionStarts(k, amt) ==
    /\ CanStart
    /\ started' = started + 1
    /\ calls' = With(calls, NewCall("updateTransaction", "fetch", transactions[k].id,
                                    StoredTxn(transactions[k].id, amt), NoCategory))
    /\ event' = NoEvent
    /\ UNCHANGED <<transactions, categories, settings, loading, server, created, serverCategories,
                   cache, categoryDeletes, failures, alerts, aggVars, formRest>>

\* the transactions screen calls deleteTransaction for a transaction of the list
DeleteTransactionStarts(k) ==
    /\ CanStart
    /\ started' = started + 1
    /\ calls' = With(calls, NewCall("deleteTransaction", "fetch", transactions[k].id,
                                    transactions[k], NoCategory))
    /\ event' = NoEvent
    /\ UNCHANGED <<transactions, categories, settings, loading, server, created, serverCategories,
                   cache, categoryDeletes, failures, alerts, aggVars, formRest>>

\* a screen calls refreshData
RefreshDataStarts ==
    /\ CanStart
    /\ started' = started + 1
    /\ calls' = With(calls, NewCall("refreshData", "categories", 0, StoredTxn(0, 1),
                                    NoCategory))
    /\ event' = NoEvent
    /\ UNCHANGED <<transactions, categories, settings, loading, server, created, serverCategories,
                   cache, categoryDeletes, failures, alerts, aggVars, formRest>>

\* a variant of Returns for a loadInitialData that calls setLoading(false) as the last
\* statement of its try block
ReturnsWithoutFinally(c, outcome) ==
    /\ event' = Outcome(c, outcome)
    /\ loading' = IF c.initial /\ c.met = {} THEN FALSE ELSE loading

\* a variant of Returns for a refreshData that lets the failure it met reach its caller
RethrowingReturns(c, outcome) ==
    /\ event' = Outcome(c, IF c.met # {} THEN "rejected" ELSE outcome)
    /\ loading' = IF c.initial THEN FALSE ELSE loading

\* a call returns to its caller; loadInitialData's finally clause ends the loading screen
Returns(c, outcome) ==
    /\ event' = Outcome(c, outcome)
    /\ loading' = IF c.initial THEN FALSE ELSE loading

Continues ==
    /\ event' = NoEvent
    /\ UNCHANGED loading

\* loadInitialData: await AsyncStorage.getItem('app_settings'), then refreshData()
LoadSettingsSettles(c) ==
    /\ c.pc = "settings"
    /\ \E ok \in BOOLEAN :
          IF ok
          THEN /\ settings' = IF cache.app_settings.present
                              THEN cache.app_settings.value ELSE settings
               /\ calls' = With(Without(c), [c EXCEPT !.op = "refreshData",
                                                        !.pc = "categories"])
               /\ Continues
               /\ UNCHANGED failures
          ELSE /\ MayFail
               /\ calls' = Without(c)
               /\ Returns(Met(c, "cacheRead"), "resolved")
               /\ failures' = failures + 1
               /\ UNCHANGED settings
    /\ UNCHANGED <<transactions, categories, server, created, serverCategories, cache,
                   categoryDeletes, started, alerts, aggVars, formRest>>

\* refreshData: await fetch(.../api/categories) and the if (categoriesResponse.ok)
RefreshCategoriesSettles(c) ==
    /\ c.pc = "categories"
    /\ \E r \in Responses :
          /\ categories' = IF r = "ok" THEN serverCategories ELSE categories
          /\ calls' = With(Without(c),
                CASE r = "ok" -> [c EXCEPT !.pc = "categoriesCache",
                                           !.data = serverCategories]
                  [] r = "nonOK" -> [Met(c, r) EXCEPT !.pc = "transactions"]
                  [] r = "rejected" -> [Met(c, r) EXCEPT !.pc = "fallback"])
          /\ r # "ok" => MayFail
          /\ failures' = failures + (IF r = "ok" THEN 0 ELSE 1)
    /\ Continues
    /\ UNCHANGED <<transactions, settings, server, created, serverCategories, cache,
                   categoryDeletes, started, alerts, aggVars, formRest>>

\* refreshData: await AsyncStorage.setItem('categories', ...)
RefreshCategoriesWriteSettles(c) ==
    /\ c.pc = "categoriesCache"
    /\ \E ok \in BOOLEAN :
          /\ cache' = IF ok THEN [cache EXCEPT !.categories = Entry(c.data)] ELSE cache
          /\ calls' = With(Without(c),
                IF ok THEN [c EXCEPT !.pc = "transactions"]
                ELSE [Met(c, "cacheWrite") EXCEPT !.pc = "fallback"])
          /\ ~ok => MayFail
          /\ failures' = failures + (IF ok THEN 0 ELSE 1)
    /\ Continues
    /\ UNCHANGED <<transactions, categories, settings, server, created, serverCategories,
                   categoryDeletes, started, alerts, aggVars, formRest>>

\* refreshData: await fetch(.../api/transactions?limit=100) and the
\* if (transactionsResponse.ok); a response that is not OK ends the try block
RefreshTransactionsSettles(c) ==
    /\ c.pc = "transactions"
    /\ \E r \in Responses :
          /\ r # "ok" => MayFail
          /\ failures' = failures + (IF r = "ok" THEN 0 ELSE 1)
          /\ CASE r = "ok" ->
                    /\ transactions' = server
                    /\ calls' = With(Interfere(Without(c), server),
                                     [c EXCEPT !.pc = "transactionsCache", !.data = server])
                    /\ Continues
               [] r = "nonOK" ->
                    /\ calls' = Without(c)
                    /\ Returns(Met(c, r), "resolved")
                    /\ UNCHANGED transactions
               [] r = "rejected" ->
                    /\ calls' = With(Without(c), [Met(c, r) EXCEPT !.pc = "fallback"])
                    /\ Continues
                    /\ UNCHANGED transactions
    /\ UNCHANGED <<categories, settings, server, created, serverCategories, cache,
                   categoryDeletes, started, alerts, aggVars, formRest>>

\* refreshData: await AsyncStorage.setItem('transactions', ...)
RefreshTransactionsWriteSettles(c) ==
    /\ c.pc = "transactionsCache"
    /\ \E ok \in BOOLEAN :
          /\ ~ok => MayFail
          /\ failures' = failures + (IF ok THEN 0 ELSE 1)
          /\ IF ok
             THEN /\ cache' = [cache EXCEPT !.transactions = Entry(c.data)]
                  /\ calls' = Without(c)
                  /\ Returns(c, "resolved")
             ELSE /\ calls' = With(Without(c),
                                  [Met(c, "cacheWrite") EXCEPT !.pc = "fallback"])
                  /\ Continues
                  /\ UNCHANGED cache
    /\ UNCHANGED <<transactions, categories, settings, server, created, serverCategories,
                   categoryDeletes, started, alerts, aggVars, formRest>>

\* refreshData's catch: both AsyncStorage.getItem, then the two conditional sets;
\* a getItem that rejects is caught by the inner catch and nothing is set
RefreshFallbackSettles(c) ==
    LET local == IF cache.transactions.present THEN cache.transactions.value
                 ELSE transactions
    IN
    /\ c.pc = "fallback"
    /\ \E ok \in BOOLEAN :
          IF ok
          THEN /\ categories' = IF cache.categories.present THEN cache.categories.value
                                ELSE categories
               /\ transactions' = local
               /\ calls' = Interfere(Without(c), local)
               /\ Returns(c, "resolved")
               /\ UNCHANGED failures
          ELSE /\ MayFail
               /\ calls' = Without(c)
               /\ Returns(Met(c, "cacheRead"), "resolved")
               /\ failures' = failures + 1
               /\ UNCHANGED <<transactions, categories>>
    /\ UNCHANGED <<settings, server, created, serverCategories, cache, categoryDeletes, started,
                   alerts, aggVars, formRest>>

\* add/update/deleteTransaction: await fetch(...). On an OK response
\* setTransactions(prev => ...) changes the list and updatedTransactions is computed
\* from the closure's list; otherwise the catch clause rethrows
MutationFetchSettles(c) ==
    /\ c.op \in Mutations /\ c.pc = "fetch"
    /\ \E r \in Responses :
          /\ r = "ok" => ServerAccepts(c)
          /\ (r = "rejected" \/ (r = "nonOK" /\ ServerAccepts(c))) => MayFail
          /\ failures' = failures + (IF r = "ok" THEN 0 ELSE 1)
          /\ IF r = "ok"
             THEN /\ server' = ApplyMutation(c, server)
                  /\ created' = IF c.op = "addTransaction" THEN created + 1 ELSE created
                  /\ transactions' = ApplyMutation(c, transactions)
                  /\ calls' = With(Interfere(Without(c), ApplyMutation(c, transactions)),
                                   [c EXCEPT !.pc = "cache",
                                             !.data = ApplyMutation(c, c.closure)])
                  /\ event' = Fetched(c)
                  /\ UNCHANGED loading
             ELSE /\ calls' = Without(c)
                  /\ Returns(Met(c, r), "rejected")
                  /\ UNCHANGED <<server, created, transactions>>
    /\ UNCHANGED <<categories, settings, serverCategories, cache, categoryDeletes,
                   started, alerts, aggVars, formRest>>

\* add/update/deleteTransaction: await AsyncStorage.setItem('transactions', ...)
MutationWriteSettles(c) ==
    /\ c.op \in Mutations /\ c.pc = "cache"
    /\ \E ok \in BOOLEAN :
          /\ ~ok => MayFail
          /\ failures' = failures + (IF ok THEN 0 ELSE 1)
          /\ cache' = IF ok THEN [cache EXCEPT !.transactions = Entry(c.data)] ELSE cache
          /\ Returns(IF ok THEN c ELSE Met(c, "cacheWrite"),
                     IF ok THEN "resolved" ELSE "rejected")
    /\ calls' = Without(c)
    /\ UNCHANGED <<transactions, categories, settings, server, created, serverCategories,
                   categoryDeletes, started, alerts, aggVars, formRest>>

\* a variant of handleDeleteCategory without the is_custom check
handleDeleteCategoryUnchecked(category) ==
    alerts' = Append(alerts, [kind |-> "confirmDelete", category |-> category])

\* SettingsScreen.handleDeleteCategory up to its Alert.alert
handleDeleteCategory(category) ==
    IF ~category.is_custom
    THEN alerts' = Append(alerts, [kind |-> "cannotDelete", category |-> category])
    ELSE alerts' = Append(alerts, [kind |-> "confirmDelete", category |-> category])

\* handleDeleteCategory runs for a category of the list (the screen draws the delete
\* button for the custom ones only; the handler takes any category)
HandleDeleteCategory(k) ==
    /\ StoreIdle
    /\ handleDeleteCategory(categories[k])
    /\ event' = [handler |-> "handleDeleteCategory", category |-> categories[k]]
    /\ UNCHANGED <<transactions, categories, settings, storeVars, aggVars, formRest>>

\* the user closes the displayed alert with Cancel or OK
DismissStoreAlert ==
    /\ ~loading /\ alerts # <<>>
    /\ alerts' = Tail(alerts)
    /\ event' = NoEvent
    /\ UNCHANGED <<transactions, categories, settings, storeVars, aggVars, formRest>>

\* 'Delete' in the confirmation: the onPress sends DELETE /api/categories/{id}
PressDeleteCategory ==
    /\ ~loading /\ alerts # <<>> /\ alerts[1].kind = "confirmDelete"
    /\ started < MaxOps /\ BagCardinality(calls) < MaxCalls
    /\ started' = started + 1
    /\ alerts' = Tail(alerts)
    /\ categoryDeletes' = Append(categoryDeletes, alerts[1].category)
    /\ calls' = With(calls, NewCall("deleteCategory", "fetch", 0, StoredTxn(0, 1),
                                    alerts[1].category))
    /\ event' = NoEvent
    /\ UNCHANGED <<transactions, categories, settings, loading, server, created, serverCategories,
                   cache, failures, aggVars, formRest>>

\* the backend deletes a category it holds unless it is a default one
ServerDeletes(category) ==
    \E k \in 1..Len(serverCategories) :
        serverCategories[k].id = category.id /\ serverCategories[k].is_custom

\* the onPress of 'Delete': await fetch(..., {method: 'DELETE'}), then the success
\* alert and refreshData(), or the error alert of the catch clause
DeleteCategoryFetchSettles(c) ==
    /\ c.op = "deleteCategory" /\ c.pc = "fetch"
    /\ \E r \in Responses :
          /\ r = "ok" => ServerDeletes(c.category)
          /\ (r = "rejected" \/ (r = "nonOK" /\ ServerDeletes(c.category))) => MayFail
          /\ failures' = failures + (IF r = "ok" THEN 0 ELSE 1)
          /\ IF r = "ok"
             THEN /\ serverCategories' = SelectSeq(serverCategories,
                                            LAMBDA x : x.id # c.category.id)
                  /\ alerts' = Append(alerts, [kind |-> "success", category |-> c.category])
                  /\ calls' = With(Without(c), [c EXCEPT !.op = "refreshData",
                                                           !.pc = "categories"])
                  /\ Continues
             ELSE /\ alerts' = Append(alerts, [kind |-> "error", category |-> c.category])
                  /\ calls' = Without(c)
                  /\ Returns(Met(c, r), "rejected")
                  /\ UNCHANGED serverCategories
    /\ UNCHANGED <<transactions, categories, settings, server, created, cache,
                   categoryDeletes,
                   started, aggVars, formRest>>

StoredCaches ==
    {EmptyCache,
     [app_settings |-> Entry([DefaultSettings EXCEPT !.default_currency = "USD"]),
      categories |-> Entry(<<DefaultCategory("Groceries")>>),
      transactions |-> Entry(<<StoredTxn(0, 1)>>)]}

\* RootLayout has mounted and its effect has called loadInitialData
InitStore ==
    /\ transactions = <<>>
    /\ categories = <<>>
    /\ settings = DefaultSettings
    /\ loading = TRUE
    /\ server = <<StoredTxn(0, 1)>>
    /\ created = 0
    /\ serverCategories = <<DefaultCategory("Groceries"), CustomCategory("Rupees")>>
    /\ cache \in StoredCaches
    /\ calls = SetToBag({InitialCall})
    /\ categoryDeletes = <<>>
    /\ started = 0
    /\ failures = 0
    /\ now = 2 * NowDay + 1
    /\ variant = "simulated"
    /\ InitAggFields
    /\ InitFormFields

NextStore ==
    \/ AddTransactionStarts(1)
    \/ \E k \in 1..Len(transactions) : UpdateTransactionStarts(k, 2)
    \/ \E k \in 1..Len(transactions) : DeleteTransactionStarts(k)
    \/ RefreshDataStarts
    \/ \E k \in 1..Len(categories) : HandleDeleteCategory(k)
    \/ DismissStoreAlert
    \/ PressDeleteCategory
    \/ \E c \in BagToSet(calls) :
          \/ LoadSettingsSettles(c)
          \/ RefreshCategoriesSettles(c)
          \/ RefreshCategoriesWriteSettles(c)
          \/ RefreshTransactionsSettles(c)
          \/ RefreshTransactionsWriteSettles(c)
          \/ RefreshFallbackSettles(c)
          \/ MutationFetchSettles(c)
          \/ MutationWriteSettles(c)
          \/ DeleteCategoryFetchSettles(c)

SpecStore == InitStore /\ [][NextStore]_vars

(***************************************************************************)
(* Settings.  The Settings screen's handlers call the updateSettings of    *)
(* the render they belong to, which closes over that render's settings;    *)
(* rendered.settings is the settings of the latest render of the screen.   *)
(***************************************************************************)
\* { ...settings, ...newSettings }
Spread(old, newSettings) ==
    [k \in DOMAIN old |-> IF k \in DOMAIN newSettings THEN newSettings[k] ELSE old[k]]

\* the argument of updateSettings: handleCurrencyChange, the dark mode switch and
\* the voice input switch
SettingsChanges ==
    [default_currency : {"INR", "USD"}] \cup [dark_mode : BOOLEAN]
        \cup [voice_enabled : BOOLEAN]

settingsRest == <<transactions, categories, server, created, serverCategories,
                  categoryDeletes, alerts, selectedPeriod, sortBy, now, formRest>>

\* RootLayout and the Settings screen render with the current settings
RenderSettings ==
    /\ ~loading
    /\ rendered # [screen |-> "settings", settings |-> settings]
    /\ rendered' = [screen |-> "settings", settings |-> settings]
    /\ event' = NoEvent
    /\ UNCHANGED <<settings, loading, cache, calls, started, failures, settingsRest>>

\* updateSettings(newSettings) up to its await AsyncStorage.setItem
updateSettings(newSettings) ==
    LET updatedSettings == Spread(rendered.settings, newSettings)
    IN  /\ settings' = updatedSettings
        /\ calls' = With(calls, [NewCall("updateSettings", "write", started + 1,
                                         StoredTxn(0, 1), NoCategory)
                                     EXCEPT !.data = updatedSettings])
        /\ event' = [handler |-> "updateSettings", newSettings |-> newSettings,
                     before |-> settings]

\* the user changes the currency or flips the dark mode or the voice input switch
ChangeSetting(newSettings) ==
    /\ ~loading /\ rendered.screen = "settings"
    /\ started < MaxOps /\ BagCardinality(calls) < MaxCalls
    /\ started' = started + 1
    /\ updateSettings(newSettings)
    /\ UNCHANGED <<loading, cache, failures, rendered, settingsRest>>

\* a Cloud Sync switch that is not disabled
PressEnabledSyncSwitch ==
    /\ ~loading /\ rendered.screen = "settings"
    /\ started < MaxOps /\ BagCardinality(calls) < MaxCalls
    /\ started' = started + 1
    /\ updateSettings([sync_enabled |-> ~rendered.settings.sync_enabled])
    /\ UNCHANGED <<loading, cache, failures, rendered, settingsRest>>

\* the user presses the Cloud Sync switch: disabled={true}, onValueChange is not called
PressSyncSwitch ==
    /\ ~loading /\ rendered.screen = "settings"
    /\ started < MaxOps
    /\ started' = started + 1
    /\ event' = [handler |-> "syncSwitch"]
    /\ UNCHANGED <<settings, loading, cache, calls, failures, rendered, settingsRest>>

\* updateSettings: await AsyncStorage.setItem('app_settings', ...); the writes are
\* done in the order in which they were issued, and one that rejects is caught
UpdateSettingsWriteSettles(c) ==
    /\ c.op = "updateSettings" /\ c.pc = "write"
    /\ \A d \in BagToSet(calls) : d.op = "updateSettings" => c.id <= d.id
    /\ \E ok \in BOOLEAN :
          /\ ~ok => MayFail
          /\ failures' = failures + (IF ok THEN 0 ELSE 1)
          /\ cache' = IF ok THEN [cache EXCEPT !.app_settings = Entry(c.data)] ELSE cache
    /\ calls' = Without(c)
    /\ event' = NoEvent
    /\ UNCHANGED <<settings, loading, started, rendered, settingsRest>>

\* the app is closed and opened again: the memory is lost, the cache and the backend
\* are kept, RootLayout mounts and its effect calls loadInitialData
Restart ==
    /\ ~loading
    /\ started < MaxOps
    /\ started' = started + 1
    /\ transactions' = <<>>
    /\ categories' = <<>>
    /\ settings' = DefaultSettings
    /\ loading' = TRUE
    /\ calls' = SetToBag({InitialCall})
    /\ alerts' = <<>>
    /\ rendered' = [screen |-> "none"]
    /\ event' = [handler |-> "restart"]
    /\ UNCHANGED <<server, created, serverCategories, cache, categoryDeletes, failures,
                   selectedPeriod, sortBy, now, formRest>>

NextSettings ==
    \/ RenderSettings
    \/ \E newSettings \in SettingsChanges : ChangeSetting(newSettings)
    \/ PressSyncSwitch
    \/ Restart
    \/ \E c \in BagToSet(calls) :
          \/ UpdateSettingsWriteSettles(c)
          \/ LoadSettingsSettles(c)
          \/ RefreshCategoriesSettles(c)
          \/ RefreshCategoriesWriteSettles(c)
          \/ RefreshTransactionsSettles(c)
          \/ RefreshTransactionsWriteSettles(c)
          \/ RefreshFallbackSettles(c)

SpecSettings == InitStore /\ [][NextSettings]_vars

\* a call in flight settles: the runtime runs the continuation of every promise that
\* has settled, and AsyncStorage and fetch settle every promise they return
SettingsSettles ==
    \E c \in BagToSet(calls) :
        \/ UpdateSettingsWriteSettles(c)
        \/ LoadSettingsSettles(c)
        \/ RefreshCategoriesSettles(c)
        \/ RefreshCategoriesWriteSettles(c)
        \/ RefreshTransactionsSettles(c)
        \/ RefreshTransactionsWriteSettles(c)
        \/ RefreshFallbackSettles(c)

SpecSettingsFair == SpecSettings /\ WF_vars(SettingsSettles)

(***************************************************************************)
(* The edit modal of the Transactions screen.  rendered holds the modal's  *)
(* state, requests the PUT in flight; the backend, which is not part of    *)
(* the sources, applies the partial body to the record it stores.          *)
(***************************************************************************)
Currencies == {"INR", "USD"}

EditableTxn(id, currency, voice) ==
    [id |-> id, amount |-> Finite(50000), category_id |-> "Groceries",
     category_name |-> "Groceries", transaction_type |-> "expense",
     description |-> "Lunch with friends", currency |-> currency,
     transaction_date |-> NowDay, created_at |-> NowDay, is_voice_input |-> voice]

\* the texts typed into the modal's amount field
EditAmounts == {"", "0", "50", "abc"}

\* amount.toString() of the amounts the list holds
NumberToString(x) == CHOOSE a \in {"50", "500"} : NumberOf[a] = x

\* categories.find(cat => cat.id === id) || null
FindCategory(id) ==
    IF \E i \in 1..Len(categories) : categories[i].id = id
    THEN categories[CHOOSE i \in 1..Len(categories) :
                        /\ categories[i].id = id
                        /\ \A j \in 1..(i - 1) : categories[j].id # id]
    ELSE NoCategory

ModalClosed == [screen |-> "transactions"]

editRest == <<categories, settings, loading, created, serverCategories, calls,
              categoryDeletes, started, failures, selectedPeriod, sortBy, now, variant,
              amount, description, selectedCategory, transactionType, isListening, timer>>

\* the swipe action 'Edit' of a row
handleEditTransaction(transaction) ==
    rendered' = [screen |-> "edit",
                 editingTransaction |-> transaction,
                 editAmount |-> NumberToString(transaction.amount),
                 editDescription |-> transaction.description,
                 editType |-> transaction.transaction_type,
                 editDate |-> transaction.transaction_date,
                 editCategory |-> FindCategory(transaction.category_id)]

HandleEditTransaction(k) ==
    /\ CanAct /\ FormIdle
    /\ rendered = ModalClosed
    /\ handleEditTransaction(transactions[k])
    /\ userActions' = userActions + 1
    /\ event' = [handler |-> "handleEditTransaction"]
    /\ UNCHANGED <<transactions, server, cache, requests, alerts, editRest>>

\* the modal's amount field, type buttons and category picker
SetEditAmount(a) ==
    /\ CanAct /\ FormIdle
    /\ rendered.screen = "edit" /\ rendered.editAmount # a
    /\ rendered' = [rendered EXCEPT !.editAmount = a]
    /\ userActions' = userActions + 1
    /\ event' = [handler |-> "setEditAmount"]
    /\ UNCHANGED <<transactions, server, cache, requests, alerts, editRest>>

SetEditType(t) ==
    /\ CanAct /\ FormIdle
    /\ rendered.screen = "edit" /\ rendered.editType # t
    /\ rendered' = [rendered EXCEPT !.editType = t]
    /\ userActions' = userActions + 1
    /\ event' = [handler |-> "setEditType"]
    /\ UNCHANGED <<transactions, server, cache, requests, alerts, editRest>>

SetEditCategory(category) ==
    /\ CanAct /\ FormIdle
    /\ rendered.screen = "edit" /\ rendered.editCategory # category
    /\ rendered' = [rendered EXCEPT !.editCategory = category]
    /\ userActions' = userActions + 1
    /\ event' = [handler |-> "setEditCategory"]
    /\ UNCHANGED <<transactions, server, cache, requests, alerts, editRest>>

\* a variant of EditBody that sends the currency of the transaction that is edited
EditBodyKeepingCurrency ==
    [amount |-> JSONNumber(NumberOf[rendered.editAmount]),
     category_id |-> rendered.editCategory.id,
     category_name |-> rendered.editCategory.name,
     transaction_type |-> rendered.editType,
     description |-> rendered.editDescription,
     currency |-> rendered.editingTransaction.currency,
     transaction_date |-> rendered.editDate]

\* the body handleSaveEdit passes to updateTransaction
EditBody ==
    [amount |-> JSONNumber(NumberOf[rendered.editAmount]),
     category_id |-> rendered.editCategory.id,
     category_name |-> rendered.editCategory.name,
     transaction_type |-> rendered.editType,
     description |-> rendered.editDescription,
     currency |-> settings.default_currency,
     transaction_date |-> rendered.editDate]

\* the modal's 'Save' button: the two validations, then await updateTransaction(...)
HandleSaveEdit ==
    /\ CanAct /\ FormIdle
    /\ rendered.screen = "edit" /\ requests = <<>>
    /\ userActions' = userActions + 1
    /\ event' = [handler |-> "handleSaveEdit"]
    /\ IF \/ rendered.editAmount = "" \/ rendered.editCategory = NoCategory
          \/ isNaN(NumberOf[rendered.editAmount])
          \/ NotPositive(NumberOf[rendered.editAmount])
       THEN /\ alerts' = Append(alerts, [kind |-> "error", text |-> "validation"])
            /\ UNCHANGED requests
       ELSE /\ requests' = <<[id |-> rendered.editingTransaction.id, body |-> EditBody,
                               closure |-> transactions]>>
            /\ UNCHANGED alerts
    /\ UNCHANGED <<transactions, server, cache, rendered, editRest>>

\* the backend's PUT: the fields of the body replace those of the stored record
PartialUpdate(stored, body) ==
    [f \in DOMAIN stored |-> IF f \in DOMAIN body THEN body[f] ELSE stored[f]]

StoredRecord(id) == server[CHOOSE k \in 1..Len(server) : server[k].id = id]

\* updateTransaction's fetch and cache write settle, and handleSaveEdit goes on: with an
\* OK response the list is mapped, the closure's list is written to the cache, and the
\* modal closes with 'Success' unless the write fails; otherwise the catch clause alerts
SaveEditSettles ==
    /\ requests # <<>>
    /\ LET c == requests[1]
           updatedTransaction == PartialUpdate(StoredRecord(c.id), c.body)
       IN  \E r \in Responses, written \in BOOLEAN :
              /\ r = "ok" => HasId(server, c.id)
              /\ r # "ok" => written
              /\ IF r = "ok"
                 THEN /\ server' = ReplaceById(server, c.id, updatedTransaction)
                      /\ transactions' = ReplaceById(transactions, c.id, updatedTransaction)
                      /\ cache' = IF written
                                  THEN [cache EXCEPT !.transactions =
                                          Entry(ReplaceById(c.closure, c.id, updatedTransaction))]
                                  ELSE cache
                      /\ event' = [handler |-> "updateTransaction", outcome |-> "ok",
                                   id |-> c.id, json |-> updatedTransaction]
                 ELSE /\ UNCHANGED <<server, transactions, cache>>
                      /\ event' = [handler |-> "updateTransaction", outcome |-> "rejected"]
              /\ alerts' = Append(alerts, IF r = "ok" /\ written
                                          THEN [kind |-> "success", text |-> ""]
                                          ELSE [kind |-> "error", text |-> "failed"])
              /\ rendered' = IF r = "ok" /\ written THEN ModalClosed ELSE rendered
    /\ requests' = <<>>
    /\ UNCHANGED <<userActions, editRest>>

\* the only button of the modal's alerts
DismissEditAlert ==
    /\ CanAct
    /\ alerts # <<>>
    /\ alerts' = Tail(alerts)
    /\ userActions' = userActions + 1
    /\ event' = [handler |-> "dismissAlert"]
    /\ UNCHANGED <<transactions, server, cache, rendered, requests, editRest>>

\* the Transactions screen over a loaded list; each transaction was created under
\* some default currency, which need not be the present one
InitEdit ==
    /\ \E c1 \in Currencies, voice \in BOOLEAN :
          transactions = <<EditableTxn("1", c1, voice), EditableTxn("2", "USD", FALSE)>>
    /\ server = transactions
    /\ cache = [EmptyCache EXCEPT !.transactions = Entry(transactions)]
    /\ categories = <<DefaultCategory("Groceries"), DefaultCategory("Utilities")>>
    /\ settings \in {[DefaultSettings EXCEPT !.default_currency = c] : c \in Currencies}
    /\ loading = FALSE
    /\ created = 0
    /\ serverCategories = categories
    /\ calls = EmptyBag
    /\ categoryDeletes = <<>>
    /\ started = 0
    /\ failures = 0
    /\ variant = "voice"
    /\ now = 2 * NowDay + 1
    /\ selectedPeriod = 30
    /\ sortBy = "amount_desc"
    /\ rendered = ModalClosed
    /\ InitFormFields

NextEdit ==
    \/ \E k \in 1..Len(transactions) : HandleEditTransaction(k)
    \/ \E a \in EditAmounts : SetEditAmount(a)
    \/ \E t \in TransactionTypes : SetEditType(t)
    \/ \E i \in 1..Len(categories) : SetEditCategory(categories[i])
    \/ HandleSaveEdit
    \/ SaveEditSettles
    \/ DismissEditAlert

SpecEdit == InitEdit /\ [][NextEdit]_vars

(***************************************************************************)
(* getColorForCategory over names of every length: the names are the       *)
(* prefixes of the model's strings, the empty one included.                *)
(***************************************************************************)
NameChars == UNION {{SubSeq(Chars(s), 1, n) : n \in 0..Len(Chars(s))} : s \in Strings}

\* colors[index] of a JavaScript array
PaletteAt(index) ==
    IF index \in 0..(Len(colors) - 1) THEN colors[index + 1] ELSE "undefined"

\* what getColorForCategory computes for a name on a screen
LegendOf ==
    [screen \in {"charts", "home"}, cs \in NameChars |->
        LET hash == IF screen = "charts" THEN ChartsHash(cs) ELSE HomeHash(cs)
            index == AbsMod(hash, Len(colors))
        IN  [screen |-> screen, name |-> cs, hash |-> hash, index |-> index,
             color |-> PaletteAt(index)]]

\* a legend entry asks for the color of a name
GetColorForCategory(screen, cs) ==
    /\ rendered # LegendOf[screen, cs]
    /\ rendered' = LegendOf[screen, cs]
    /\ event' = NoEvent
    /\ UNCHANGED <<ctxVars, selectedPeriod, sortBy, now, variant, amount, description,
                   selectedCategory, transactionType, isListening, timer, alerts,
                   requests, userActions>>

InitColor ==
    /\ transactions = <<>>
    /\ categories = <<>>
    /\ settings = DefaultSettings
    /\ variant = "simulated"
    /\ now = 2 * NowDay + 1
    /\ InitStoreFields
    /\ InitAggFields
    /\ InitFormFields

NextColor == \E screen \in {"charts", "home"}, cs \in NameChars : GetColorForCategory(screen, cs)

SpecColor == InitColor /\ [][NextColor]_vars

(***************************************************************************)
(* Pull-to-refresh.  rendered holds the screen's refreshing flag.          *)
(***************************************************************************)
Refreshing == rendered.screen = "summary" /\ rendered.refreshing

\* onRefresh up to its await: setRefreshing(true); await refreshData()
OnRefresh ==
    /\ ~loading /\ ~Refreshing
    /\ started < MaxOps /\ BagCardinality(calls) < MaxCalls
    /\ started' = started + 1
    /\ rendered' = [screen |-> "summary", refreshing |-> TRUE]
    /\ calls' = With(calls, NewCall("refreshData", "categories", 0, StoredTxn(0, 1),
                                    NoCategory))
    /\ event' = NoEvent
    /\ UNCHANGED <<transactions, categories, settings, loading, server, created,
                   serverCategories, cache, categoryDeletes, failures, alerts,
                   selectedPeriod, sortBy, now, formRest>>

\* onRefresh after its await, which goes on only if refreshData has resolved:
\* setRefreshing(false)
OnRefreshResumes ==
    /\ Refreshing
    /\ event.handler = "refreshData" /\ event.outcome = "resolved"
    /\ rendered' = [rendered EXCEPT !.refreshing = FALSE]
    /\ event' = [handler |-> "onRefresh", met |-> event.met]
    /\ UNCHANGED <<ctxVars, selectedPeriod, sortBy, now, variant, amount, description,
                   selectedCategory, transactionType, isListening, timer, alerts,
                   requests, userActions>>

\* an await of loadInitialData or refreshData settles
RefreshSettles ==
    \E c \in BagToSet(calls) :
        \/ LoadSettingsSettles(c)
        \/ RefreshCategoriesSettles(c)
        \/ RefreshCategoriesWriteSettles(c)
        \/ RefreshTransactionsSettles(c)
        \/ RefreshTransactionsWriteSettles(c)
        \/ RefreshFallbackSettles(c)

NextRefresh == OnRefresh \/ OnRefreshResumes \/ RefreshSettles

\* every promise of fetch and AsyncStorage settles and the runtime runs the
\* continuation of a settled promise
SpecRefreshFair ==
    InitStore /\ [][NextRefresh]_vars /\ WF_vars(RefreshSettles) /\ WF_vars(OnRefreshResumes)

(***************************************************************************)
(* Properties of the store and of the category settings                    *)
(***************************************************************************)
\* C7: when addTransaction, updateTransaction or deleteTransaction rejects, and no
\* other call has changed the list meanwhile, the in-memory list is what it was
\* when the call started.
C7_FailedMutationLeavesListUnchanged ==
    (/\ event.handler \in Mutations
     /\ event.outcome = "rejected"
     /\ ~event.interfered) => transactions = event.before

\* C8: when nothing has failed and no call is in flight, the cached 'transactions'
\* entry equals the in-memory list.
C8_CacheEqualsListWhenQuiet ==
    (/\ ~loading
     /\ BagToSet(calls) = {}
     /\ failures = 0) => cache.transactions = Entry(transactions)

\* C9: a refreshData that met a rejected fetch or a response that is not OK (and
\* whose cache reads did not fail) resolves with the cached categories and
\* transactions in memory.
C9_RefreshFailureFallsBackToCache ==
    (/\ event.handler = "refreshData"
     /\ event.met \cap {"rejected", "nonOK"} # {}
     /\ "cacheRead" \notin event.met) =>
        /\ event.outcome = "resolved"
        /\ cache.categories.present => categories = cache.categories.value
        /\ cache.transactions.present => transactions = cache.transactions.value

\* C10: a run of handleDeleteCategory for a category that is not custom sends no
\* DELETE, starts no call and leaves the categories as they are, and every DELETE
\* ever sent is for a custom category.
C10_NoDeleteForDefaultCategory ==
    [][/\ (event'.handler = "handleDeleteCategory" /\ ~event'.category.is_custom) =>
                /\ categoryDeletes' = categoryDeletes
                /\ calls' = calls
                /\ categories' = categories
       /\ \A k \in 1..Len(categoryDeletes') : categoryDeletes'[k].is_custom]_vars

\* C10 witness: after a DELETE for a custom category has been sent,
\* handleDeleteCategory has run for a default category and shown 'Cannot Delete'.
C10_Witness ==
    /\ event.handler = "handleDeleteCategory"
    /\ ~event.category.is_custom
    /\ alerts # <<>> /\ alerts[Len(alerts)].kind = "cannotDelete"
    /\ categoryDeletes # <<>>

\* C24: when a mutation gets its OK response, the in-memory list changes thus:
\* addTransaction puts the created transaction at the head and keeps the others in
\* their order; updateTransaction(id) replaces exactly the elements with that id by
\* the server's record, keeping length and order; deleteTransaction(id) removes
\* exactly the elements with that id; every other element is unchanged.
C24_MutationChangesOnlyItsElement ==
    [][(event'.handler \in Mutations /\ event'.outcome = "ok") =>
          CASE event'.handler = "addTransaction" ->
                  /\ Len(transactions') = Len(transactions) + 1
                  /\ transactions'[1] = event'.json
                  /\ \A k \in 1..Len(transactions) : transactions'[k + 1] = transactions[k]
            [] event'.handler = "updateTransaction" ->
                  /\ Len(transactions') = Len(transactions)
                  /\ \A k \in 1..Len(transactions) :
                        transactions'[k] = IF transactions[k].id = event'.id
                                           THEN event'.json
                                           ELSE transactions[k]
            [] event'.handler = "deleteTransaction" ->
                  transactions' = SelectSeq(transactions, LAMBDA t : t.id # event'.id)]_vars

\* C24 witness: updateTransaction has got its OK response while the list held the
\* transaction it replaced and another one, which is as it was
C24_Witness ==
    /\ event.handler = "updateTransaction" /\ event.outcome = "ok"
    /\ Len(transactions) = 2
    /\ \E k \in 1..2 : transactions[k] = event.json /\ transactions[3 - k].id # event.id

\* C25: startup always leaves the loading state: whenever loadInitialData has been
\* started and loading is true, loading eventually becomes false, whatever the
\* outcome of the settings read, the fetches and the cache accesses.
C25_LoadingEventuallyEnds == loading ~> ~loading

\* C25 witness: the loading screen has ended after a startup that met a failure
C25_Witness ==
    /\ ~loading /\ started = 0
    /\ event.handler \in {"loadInitialData", "refreshData"}
    /\ event.met # {}

\* C27: saving an edit changes only the fields of the edit modal: the currency
\* that handleSaveEdit sends is the one the transaction had, the body carries no
\* other id, creation timestamp or voice flag, and after the update the currency,
\* id, creation timestamp and voice flag of the transaction in the list are those it
\* had before, whatever the default currency is.
C27_EditKeepsFieldsOutsideTheModal ==
    [][/\ (event'.handler = "handleSaveEdit" /\ requests' # <<>>) =>
            /\ requests'[1].body.currency = rendered.editingTransaction.currency
            /\ DOMAIN requests'[1].body \cap {"id", "created_at", "is_voice_input"} = {}
       /\ (event'.handler = "updateTransaction" /\ event'.outcome = "ok") =>
            \A k \in 1..Len(transactions) :
                /\ transactions'[k].id = transactions[k].id
                /\ transactions'[k].currency = transactions[k].currency
                /\ transactions'[k].created_at = transactions[k].created_at
                /\ transactions'[k].is_voice_input = transactions[k].is_voice_input]_vars

\* C28: updateSettings(partial) changes exactly the keys of partial and leaves every
\* other key at its current value, in memory and in what it writes to the cached
\* app_settings, also when it is called again before the first call's new state has
\* been rendered.
C28_UpdateSettingsChangesOnlyGivenKeys ==
    [][event'.handler = "updateSettings" =>
          /\ settings' = Spread(settings, event'.newSettings)
          /\ \E c \in BagToSet(calls') :
                c.op = "updateSettings" /\ c.data = Spread(settings, event'.newSettings)]_vars

\* C29: for every category name, the empty name and names whose hash the 32-bit
\* shift has wrapped to a negative value included, the palette index
\* Math.abs(hash) % 10 is an integer in 0..9 and a color of the palette is returned.
C29_PaletteIndexInRange ==
    rendered.screen \in {"charts", "home"} =>
        /\ rendered.index \in 0..9
        /\ \E k \in 1..Len(colors) : rendered.color = colors[k]

\* C29 witness: the color of a name whose hash is negative has been asked for
C29_Witness ==
    /\ rendered.screen \in {"charts", "home"}
    /\ rendered.hash[1] < 0
    /\ Len(rendered.name) >= 7

C21_SyncEnabledStaysFalse ==
    /\ ~settings.sync_enabled
    /\ cache.app_settings.present => ~cache.app_settings.value.sync_enabled

\* C21 witness: the app has been restarted and has loaded from the cache the
\* settings that an updateSettings had written
C21_Witness ==
    /\ loading
    /\ settings.dark_mode
    /\ cache.app_settings.present /\ cache.app_settings.value.dark_mode

====
